---- MODULE Spec2Model ----
(***************************************************************************)
(* Verification model of the Desi Stage-0 compiler front end:              *)
(*   - the indentation-aware lexer        (compiler/internal/lexer)        *)
(*   - the import resolver                (compiler/internal/build)        *)
(*   - the semantic checker               (compiler/internal/check)        *)
(*   - the build command driver           (compiler/cmd/desic)             *)
(* Each subsystem has its own specification over the shared variables; the *)
(* variables of the other subsystems stay at their idle value.             *)
(***************************************************************************)
EXTENDS Integers, Sequences, FiniteSets, TLC

VARIABLES
    lx,      \* the Lexer object (lexer.go: type Lexer)
    out,     \* tokens returned so far by successive Lexer.Next calls
    fs,      \* the files under the entry's directory (resolver input)
    res,     \* the resolver's activation and result
    prog,    \* the function declaration being checked and the body tokens parsed so far
    chk,     \* CheckFile's position, its checker object and its result
    bld      \* the build command: its arguments, its stages' outcomes, its result

vars == <<lx, out, fs, res, prog, chk, bld>>

Idle == "idle"

\* Last(s), Front(s): helpers on sequences
Last(s) == s[Len(s)]
Front(s) == SubSeq(s, 1, Len(s) - 1)

\* all sequences over S of length lo..hi
SeqsBetween(S, lo, hi) == UNION {[1..n -> S] : n \in lo..hi}

(***************************************************************************)
(*                               LEXER                                     *)
(***************************************************************************)

\* Bound: longest source text that is lexed.
MaxSrcLen == 6
\* Bound: how many further Next calls are made after the first EOF.
MaxCallsAfterEOF == 2

\* The characters sources are built from: a letter, a space, a newline and
\* the comment marker.
SrcAlphabet == {"a", " ", "\n", "#"}

Letters == {"a", "b", "c", "d", "e", "f", "g", "h", "i", "j", "k", "l", "m", "n",
            "o", "p", "q", "r", "s", "t", "u", "v", "w", "x", "y", "z"}
Digits == {"0", "1", "2", "3", "4", "5", "6", "7", "8", "9"}
HexLetters == {"a", "b", "c", "d", "e", "f", "A", "B", "C", "D", "E", "F"}

\* ok = false of peek()/advance()
NoRune == "<none>"

\* Lexer.make
make(kind, lex, line, col) == [Kind |-> kind, Lex |-> lex, Line |-> line, Col |-> col]

\* func New(src string) *Lexer
New(src) ==
    [src |-> src, i |-> 0, line |-> 1, col |-> 0, bol |-> TRUE,
     indents |-> <<0>>, pending |-> <<>>, eofEmitted |-> FALSE]

\* Lexer.peek
peek(l) == IF l.i >= Len(l.src) THEN NoRune ELSE l.src[l.i + 1]

\* Lexer.atEOF
atEOF(l) == l.i >= Len(l.src)

\* Lexer.advance
advance(l) ==
    IF peek(l) = NoRune THEN l
    ELSE IF peek(l) = "\n"
         THEN [l EXCEPT !.i = @ + 1, !.line = @ + 1, !.col = 0]
         ELSE [l EXCEPT !.i = @ + 1, !.col = @ + 1]

\* Lexer.match: the lexer after match(expect); matches(l, r) is its result
matches(l, expect) == peek(l) = expect
match(l, expect) == IF matches(l, expect) THEN advance(l) ELSE l

\* Lexer.enqueue
enqueue(l, t) == [l EXCEPT !.pending = Append(@, t)]

isIdentStart(r) == r = "_" \/ r = "$" \/ r \in Letters
isIdentPart(r) == r = "_" \/ r = "$" \/ r \in Letters \/ r \in Digits

\* the loop "for { r, ok := peek(); if !ok || !(r in S) {break}; advance() }"
RECURSIVE advanceWhile(_, _)
advanceWhile(l, S) ==
    IF peek(l) \in S THEN advanceWhile(advance(l), S) ELSE l

\* the loop that consumes a comment up to (not including) the newline
RECURSIVE skipToEOL(_)
skipToEOL(l) ==
    IF peek(l) = NoRune \/ peek(l) = "\n" THEN l ELSE skipToEOL(advance(l))

\* handleBOL's indentation count: space = 1, TAB = 4
RECURSIVE countIndent(_, _)
countIndent(l, width) ==
    IF peek(l) = " " THEN countIndent(advance(l), width + 1)
    ELSE IF peek(l) = "\t" THEN countIndent(advance(l), width + 4)
    ELSE [l |-> l, width |-> width]

\* handleBOL at EOF: "for len(indents) > 1 { pop; enqueue(DEDENT) }"
RECURSIVE unwindAll(_)
unwindAll(l) ==
    IF Len(l.indents) > 1
    THEN unwindAll(enqueue([l EXCEPT !.indents = Front(@)],
                           make("TokDedent", <<>>, l.line, l.col)))
    ELSE l

\* handleBOL: "for width < top && len(indents) > 1 { pop; enqueue(DEDENT) }"
RECURSIVE dedentTo(_, _)
dedentTo(l, width) ==
    IF width < Last(l.indents) /\ Len(l.indents) > 1
    THEN dedentTo(enqueue([l EXCEPT !.indents = Front(@)],
                          make("TokDedent", <<>>, l.line, l.col)), width)
    ELSE l

\* handleBOL's comparison of the line's width with the top of the stack
compareIndent(l, width) ==
    LET top == Last(l.indents) IN
    IF width > top
    THEN enqueue([l EXCEPT !.indents = Append(@, width)],
                 make("TokIndent", <<>>, l.line, l.col))
    ELSE IF width < top THEN dedentTo(l, width)
    ELSE l

\* Lexer.handleBOL
RECURSIVE handleBOL(_)
handleBOL(l) ==
    IF ~l.bol THEN l
    ELSE IF atEOF(l) THEN [unwindAll(l) EXCEPT !.bol = FALSE]
    ELSE LET ci == countIndent(l, 0)
             l1 == ci.l
             width == ci.width
         IN IF peek(l1) = "\n" THEN handleBOL(advance(l1))
            ELSE IF peek(l1) = "#" /\ matches(skipToEOL(l1), "\n")
                 THEN handleBOL(advance(skipToEOL(l1)))
            ELSE LET l2 == IF peek(l1) = "#" THEN skipToEOL(l1) ELSE l1
                 IN [compareIndent(l2, width) EXCEPT !.bol = FALSE]

\* keywordKind: the reserved words the lexer recognises
keywordKind(s) ==
    CASE s = <<"l", "e", "t">> -> "TokLet"
      [] s = <<"m", "u", "t">> -> "TokMut"
      [] s = <<"d", "e", "f">> -> "TokDef"
      [] s = <<"r", "e", "t", "u", "r", "n">> -> "TokReturn"
      [] s = <<"i", "f">> -> "TokIf"
      [] s = <<"e", "l", "i", "f">> -> "TokElif"
      [] s = <<"e", "l", "s", "e">> -> "TokElse"
      [] s = <<"w", "h", "i", "l", "e">> -> "TokWhile"
      [] s = <<"f", "o", "r">> -> "TokFor"
      [] s = <<"i", "n">> -> "TokIn"
      [] s = <<"m", "a", "t", "c", "h">> -> "TokMatch"
      [] s = <<"s", "t", "r", "u", "c", "t">> -> "TokStruct"
      [] s = <<"e", "n", "u", "m">> -> "TokEnum"
      [] s = <<"p", "a", "c", "k", "a", "g", "e">> -> "TokPackage"
      [] s = <<"i", "m", "p", "o", "r", "t">> -> "TokImport"
      [] s = <<"a", "s">> -> "TokAs"
      [] s = <<"t", "r", "u", "e">> -> "TokTrue"
      [] s = <<"f", "a", "l", "s", "e">> -> "TokFalse"
      [] s = <<"a", "n", "d">> -> "TokAnd"
      [] s = <<"o", "r">> -> "TokOr"
      [] s = <<"n", "o", "t">> -> "TokNot"
      [] OTHER -> "TokIdent"

\* the lexeme src[start:i]
lexeme(l, start) == SubSeq(l.src, start + 1, l.i)

\* Lexer.scanIdent
scanIdent(l) == advanceWhile(l, Letters \cup Digits \cup {"_", "$"})

\* Lexer.scanNumber
scanNumber(l) ==
    IF peek(l) = "0"
    THEN LET l1 == advance(l) IN
         IF peek(l1) \in {"x", "X"} THEN advanceWhile(advance(l1), Digits \cup HexLetters)
         ELSE IF peek(l1) \in {"b", "B"} THEN advanceWhile(advance(l1), {"0", "1"})
         ELSE advanceWhile(l1, Digits)
    ELSE advanceWhile(l, Digits)

\* Lexer.scanString's loop, after the opening quote
RECURSIVE scanStringBody(_)
scanStringBody(l) ==
    IF peek(l) = NoRune THEN l
    ELSE IF peek(l) = "\\" THEN scanStringBody(advance(advance(l)))
    ELSE IF peek(l) = "\"" THEN advance(l)
    ELSE IF peek(l) = "\n" THEN l
    ELSE scanStringBody(advance(l))

\* Lexer.scanString
scanString(l) == scanStringBody(advance(l))

\* result of one Next call: the lexer afterwards and the token returned
Ret(l, t) == [l |-> l, tok |-> t]

\* Next, "EOF: unwind remaining indents, then emit EOF"
nextAtEOF(l) ==
    IF ~l.eofEmitted /\ Len(l.indents) > 1
    THEN Ret([l EXCEPT !.indents = Front(@)], make("TokDedent", <<>>, l.line, l.col))
    ELSE Ret([l EXCEPT !.eofEmitted = TRUE], make("TokEOF", <<>>, l.line, l.col))

\* Next, "Comment mid-line: consume to EOL, then emit NEWLINE"
nextComment(l, startLine, startCol) ==
    LET l1 == skipToEOL(l) IN
    IF matches(l1, "\n")
    THEN Ret([advance(l1) EXCEPT !.bol = TRUE], make("TokNewline", <<>>, startLine, startCol))
    ELSE Ret(l1, make("TokEOF", <<>>, l1.line, l1.col))

\* Next, the two-character operators and the single-character punctuation
TwoCharOps == {<<":", "=", "TokAssign">>, <<"-", ">", "TokArrow">>, <<"=", "=", "TokEqEq">>,
               <<"!", "=", "TokNe">>, <<"<", "=", "TokLe">>, <<">", "=", "TokGe">>,
               <<"|", ">", "TokPipe">>}
OneCharOps == {<<":", "TokColon">>, <<"-", "TokMinus">>, <<"=", "TokEq">>, <<"!", "TokBang">>,
               <<"<", "TokLt">>, <<">", "TokGt">>, <<"|", "TokPipe">>, <<"+", "TokPlus">>,
               <<"*", "TokStar">>, <<"/", "TokSlash">>, <<"%", "TokPercent">>,
               <<"(", "TokLParen">>, <<")", "TokRParen">>, <<"[", "TokLBrack">>,
               <<"]", "TokRBrack">>, <<".", "TokDot">>, <<",", "TokComma">>}
OpChars == {o[1] : o \in OneCharOps}

nextOperator(l, startLine, startCol) ==
    LET c1 == peek(l)
        l1 == advance(l)
        c2 == peek(l1)
    IN IF \E o \in TwoCharOps : o[1] = c1 /\ o[2] = c2
       THEN LET o == CHOOSE o \in TwoCharOps : o[1] = c1 /\ o[2] = c2
            IN Ret(advance(l1), make(o[3], <<c1, c2>>, startLine, startCol))
       ELSE LET o == CHOOSE o \in OneCharOps : o[1] = c1
            IN Ret(l1, make(o[2], <<c1>>, startLine, startCol))

\* Lexer.Next, from "Skip mid-line spaces/tabs" on
RECURSIVE Next(_)
nextMidLine(l0) ==
    LET l == advanceWhile(l0, {" ", "\t"})
        startLine == l.line
        startCol == l.col + 1
        ch == peek(l)
    IN IF ch = "\n"
       THEN Ret([advance(l) EXCEPT !.bol = TRUE], make("TokNewline", <<>>, startLine, startCol))
       ELSE IF ch = "#" THEN nextComment(l, startLine, startCol)
       ELSE IF ch # NoRune /\ isIdentStart(ch)
            THEN LET l1 == scanIdent(l)
                 IN Ret(l1, make(keywordKind(lexeme(l1, l.i)), lexeme(l1, l.i), startLine, startCol))
       ELSE IF ch \in Digits
            THEN LET l1 == scanNumber(l)
                 IN Ret(l1, make("TokInt", lexeme(l1, l.i), startLine, startCol))
       ELSE IF ch = "\""
            THEN LET l1 == scanString(l)
                 IN Ret(l1, make("TokStr", lexeme(l1, l.i), startLine, startCol))
       ELSE IF ch \in OpChars THEN nextOperator(l, startLine, startCol)
       ELSE Next(advance(l))

\* Lexer.Next
Next(l) ==
    IF Len(l.pending) > 0
    THEN Ret([l EXCEPT !.pending = Tail(@)], Head(l.pending))
    ELSE LET l1 == IF l.bol THEN handleBOL(l) ELSE l IN
         IF l.bol /\ Len(l1.pending) > 0
         THEN Ret([l1 EXCEPT !.pending = Tail(@)], Head(l1.pending))
         ELSE IF atEOF(l1) THEN nextAtEOF(l1)
         ELSE nextMidLine(l1)

CountKind(kind) == Cardinality({k \in 1..Len(out) : out[k].Kind = kind})
EOFSeen == \E k \in 1..Len(out) : out[k].Kind = "TokEOF"
FirstEOF == CHOOSE k \in 1..Len(out) : out[k].Kind = "TokEOF" /\ \A j \in 1..(k - 1) : out[j].Kind # "TokEOF"

\* the state after lexer.New(src), for every source within the bound
LexInit ==
    /\ \E src \in SeqsBetween(SrcAlphabet, 0, MaxSrcLen) : lx = New(src)
    /\ out = <<>>
    /\ fs = Idle /\ res = Idle /\ prog = Idle /\ chk = Idle /\ bld = Idle

\* one call of Lexer.Next by the token consumer (kindsFrom, the parser)
LexNext ==
    /\ CountKind("TokEOF") <= MaxCallsAfterEOF
    /\ LET r == Next(lx) IN
         /\ lx' = r.l
         /\ out' = Append(out, r.tok)
    /\ UNCHANGED <<fs, res, prog, chk, bld>>

SpecLex == LexInit /\ [][LexNext]_vars

\* C1: when the lexer returns its first EOF, it has returned as many INDENT
\* tokens as DEDENT tokens (every opened indentation level was closed).
CountKindUpTo(kind, n) == Cardinality({k \in 1..n : out[k].Kind = kind})
C1_IndentsClosedAtFirstEOF ==
    EOFSeen => CountKindUpTo("TokIndent", FirstEOF) = CountKindUpTo("TokDedent", FirstEOF)

\* C2: once Next has returned EOF, every later call returns EOF again: no
\* DEDENT or other token follows an EOF.
C2_NothingAfterEOF ==
    \A i, j \in 1..Len(out) : (i < j /\ out[i].Kind = "TokEOF") => out[j].Kind = "TokEOF"

(***************************************************************************)
(*                          IMPORT RESOLVER                                *)
(***************************************************************************)

\* Bound: number of absolute file paths under the entry's directory.
NFiles == 3
\* Bound: number of import declarations in all the files together.
MaxImports == 3

Paths == 1..NFiles
\* entryAbs: the entry file's absolute path
entryAbs == 1
\* an import whose dotted path starts with "std." (no file path)
StdImport == 0
\* the nil *ast.File
Nil == [isNil |-> TRUE, Decls |-> <<>>]

\* What os.Stat / os.ReadFile / parser.ParseFile give for a path:
\*   "missing"    os.Stat fails (no such file)
\*   "unreadable" os.Stat succeeds, os.ReadFile fails
\*   "badparse"   the file is read, ParseFile returns an error
\*   "ok"         ParseFile returns an *ast.File with these Imports
FileStates(nImps) ==
    {[status |-> "ok", imports |-> imps] : imps \in [1..nImps -> Paths \cup {StdImport}]}
    \cup (IF nImps = 0
          THEN {[status |-> s, imports |-> <<>>] : s \in {"missing", "unreadable", "badparse"}}
          ELSE {})

\* fs is any assignment of a file state to the paths 1..NFiles with at most e
\* import declarations in total; acc holds the states of the paths above n
RECURSIVE FileSystemIs(_, _, _)
FileSystemIs(n, e, acc) ==
    IF n = 0 THEN fs = acc
    ELSE \E j \in 0..e : \E f \in FileStates(j) : FileSystemIs(n - 1, e - j, <<f>> \o acc)

\* filepath.EvalSymlinks: the file a path denotes once symbolic links are
\* resolved (the path itself where the file system holds no link for it)
EvalSymlinks(p) == IF "real" \in DOMAIN fs[p] THEN fs[p].real ELSE p

\* f.Decls of the file parsed from path p: the two declarations, in source
\* order, of the file that p denotes
DeclsOf(p) == <<[file |-> EvalSymlinks(p), k |-> 1], [file |-> EvalSymlinks(p), k |-> 2]>>

\* fileExists
fileExists(p) == fs[p].status # "missing"

\* (mutant) same as plain equality of the paths
samePath(a, b) == a = b

\* same(a, b): equality of the symlink-resolved paths
same(a, b) == EvalSymlinks(a) = EvalSymlinks(b)

\* the local variables of ResolveAndParse, plus counters of the file reads
\* and parses it performs
resolverVars ==
    [errs |-> <<>>, seen |-> {}, stack |-> <<>>, result |-> <<>>,
     reads |-> [p \in Paths |-> 0], parses |-> [p \in Paths |-> 0]]

\* (mutant) load without the duplicate-load check
neverSeen(st, p) == FALSE

\* load: "if seen[absPath] { return }"
alreadySeen(st, p) == p \in st.seen

\* load: "for _, on := range stack { if on == absPath {...} }"
onStack(st, p) == \E k \in 1..Len(st.stack) : st.stack[k] = p

\* the errors load appends
addErr(st, e) == [st EXCEPT !.errs = Append(@, e)]
\* (mutants) a detected cycle, or a missing import target, is not reported
cycleSilent(st, p) == st
notFoundSilent(st, target, from) == st

cycleErr(st, p) == addErr(st, [kind |-> "cycle", path |-> p])
readErr(st, p) == addErr(st, [kind |-> "read", path |-> p])
parseErr(st, p) == addErr(st, [kind |-> "parse", path |-> p])
notFoundErr(st, target, from) == addErr(st, [kind |-> "notfound", path |-> target, from |-> from])

\* load: the deferred "stack = stack[:len(stack)-1]"
popStack(st) == [st EXCEPT !.stack = Front(@)]

\* load: "result = append(result, unit); seen[absPath] = true"
finishLoad(st, p) == [st EXCEPT !.result = Append(@, p), !.seen = @ \cup {p}]

RECURSIVE load(_, _), loadImports(_, _, _)
\* load: the loop over f.Imports, from the k-th import on
loadImports(st, p, k) ==
    IF k > Len(fs[p].imports) THEN st
    ELSE LET target == fs[p].imports[k] IN
         IF target = StdImport THEN loadImports(st, p, k + 1)
         ELSE IF ~fileExists(target) THEN loadImports(notFoundErr(st, target, p), p, k + 1)
         ELSE loadImports(load(st, target), p, k + 1)

\* the closure load of ResolveAndParse
load(st, p) ==
    IF alreadySeen(st, p) THEN st
    ELSE IF onStack(st, p) THEN cycleErr(st, p)
    ELSE LET s1 == [st EXCEPT !.stack = Append(@, p), !.reads[p] = @ + 1] IN
         IF fs[p].status \in {"missing", "unreadable"} THEN popStack(readErr(s1, p))
         ELSE LET s2 == [s1 EXCEPT !.parses[p] = @ + 1] IN
              IF fs[p].status = "badparse" THEN popStack(parseErr(s2, p))
              ELSE popStack(finishLoad(loadImports(s2, p, 1), p))

\* concatenation of the Decls of the units of result that satisfy keep
RECURSIVE appendDecls(_, _, _)
appendDecls(decls, result, keepEntry) ==
    IF result = <<>> THEN decls
    ELSE appendDecls(IF same(Head(result), entryAbs) = keepEntry
                     THEN decls \o DeclsOf(Head(result)) ELSE decls,
                     Tail(result), keepEntry)

\* (mutant) the units are merged in load order, the entry not moved first
mergeInLoadOrder(result) == appendDecls(appendDecls(<<>>, result, FALSE), result, TRUE)

\* ResolveAndParse: "Put entry first", "Then all others"
mergeDecls(result) == appendDecls(appendDecls(<<>>, result, TRUE), result, FALSE)

\* ResolveAndParse: what is returned after load(entryAbs)
returned(st) ==
    IF Len(st.errs) > 0
    THEN [file |-> Nil, errs |-> st.errs]
    ELSE [file |-> [isNil |-> FALSE, Decls |-> mergeDecls(st.result)], errs |-> <<>>]

\* the files under the entry's directory, before ResolveAndParse is called
ResInit ==
    /\ FileSystemIs(NFiles, MaxImports, <<>>)
    /\ res = [done |-> FALSE]
    /\ lx = Idle /\ out = Idle /\ prog = Idle /\ chk = Idle /\ bld = Idle

\* one call ResolveAndParse(entryPath)
ResolveAndParse ==
    /\ ~res.done
    /\ LET st == load(resolverVars, entryAbs)
           r == returned(st)
       IN res' = [done |-> TRUE, file |-> r.file, errs |-> r.errs,
                  result |-> st.result, reads |-> st.reads, parses |-> st.parses]
    /\ UNCHANGED <<lx, out, fs, prog, chk, bld>>

SpecResolve == ResInit /\ [][ResolveAndParse]_vars

(* ------------- the import graph, independently of the resolver --------- *)

\* p imports the existing file q (a non-std import of a file that parses)
Imports(p, q) ==
    /\ fs[p].status = "ok"
    /\ \E k \in 1..Len(fs[p].imports) : fs[p].imports[k] = q
    /\ fileExists(q)

RECURSIVE Closure(_)
Closure(S) ==
    LET S2 == S \cup {q \in Paths : \E p \in S : Imports(p, q)}
    IN IF S2 = S THEN S ELSE Closure(S2)

\* the files reachable from the entry file
Reachable == Closure({entryAbs})

\* the reachable import graph contains a cycle
HasCycle == \E p \in Reachable : p \in Closure({q \in Paths : Imports(p, q)})

\* some reachable file cannot be read or parsed, or imports a missing file
LoadFailure ==
    \E p \in Reachable :
        \/ fs[p].status # "ok"
        \/ \E k \in 1..Len(fs[p].imports) :
              fs[p].imports[k] # StdImport /\ ~fileExists(fs[p].imports[k])

\* depth-first post-order of the files reachable from p, imports in textual
\* order, continuing the order `done`
RECURSIVE PostOrder(_, _), PostOrderImports(_, _, _)
PostOrderImports(done, p, k) ==
    IF k > Len(fs[p].imports) THEN done
    ELSE IF fs[p].imports[k] = StdImport THEN PostOrderImports(done, p, k + 1)
    ELSE PostOrderImports(PostOrder(done, fs[p].imports[k]), p, k + 1)
PostOrder(done, p) ==
    IF \E k \in 1..Len(done) : done[k] = p THEN done
    ELSE Append(PostOrderImports(done, p, 1), p)

RECURSIVE DeclsOfAll(_)
DeclsOfAll(paths) ==
    IF paths = <<>> THEN <<>> ELSE DeclsOf(Head(paths)) \o DeclsOfAll(Tail(paths))

Occurrences(seq, x) == Cardinality({k \in 1..Len(seq) : seq[k] = x})
HasErr(kind) == \E k \in 1..Len(res.errs) : res.errs[k].kind = kind

\* C3: on an import graph with a cycle the resolver ends with at least one
\* "import cycle detected" error and returns no merged file.
C3_CycleReported ==
    (res.done /\ HasCycle) => (res.file = Nil /\ HasErr("cycle"))
C3_Witness ==
    /\ res.done /\ HasCycle /\ HasErr("cycle")
    /\ fs[entryAbs].imports = <<2>> /\ fs[2].imports = <<3>> /\ fs[3].imports = <<2>>

C5_EntryThenPostOrder ==
    (res.done /\ ~HasCycle /\ ~LoadFailure) =>
        /\ res.file # Nil
        /\ res.file.Decls =
             DeclsOf(entryAbs) \o DeclsOfAll(Front(PostOrder(<<>>, entryAbs)))
C5_Witness ==
    /\ res.done /\ res.file # Nil
    /\ fs[entryAbs].imports = <<2, 3>> /\ fs[2].imports = <<3>>
    /\ res.file.Decls = DeclsOf(1) \o DeclsOf(3) \o DeclsOf(2)

\* C6 (as claimed): a merged file and no errors are returned unless some
\* reachable file cannot be read or parsed or a non-std import is missing;
\* in that case no file and a non-empty error list are returned.
C6_FileUnlessLoadFailure ==
    res.done =>
        IF LoadFailure THEN res.file = Nil /\ Len(res.errs) > 0
                       ELSE res.file # Nil /\ Len(res.errs) = 0

\* C6 (amended): the same, with an import cycle counted among the failures.
C6_FileUnlessFailureOrCycle ==
    res.done =>
        IF LoadFailure \/ HasCycle THEN res.file = Nil /\ Len(res.errs) > 0
                                   ELSE res.file # Nil /\ Len(res.errs) = 0
C6_Witness ==
    /\ res.done /\ res.file = Nil
    /\ HasErr("notfound") /\ HasErr("parse") /\ ~HasCycle

(***************************************************************************)
(*                              PARSER                                     *)
(* The parser reads its tokens from a TokenSource; here the source replays *)
(* a sequence of tokens.  Lexemes and names are sequences of characters.   *)
(***************************************************************************)

Tok(k, l) == [Kind |-> k, Lex |-> l]

\* absent AST node (a nil ast.Expr / ast.Stmt)
NoNode == [e |-> "none", s |-> "none"]

\* TokKind.String for the operator kinds used as ast operators
KindString(k) ==
    CASE k = "TokPlus" -> "+"   [] k = "TokMinus" -> "-" [] k = "TokStar" -> "*"
      [] k = "TokSlash" -> "/"  [] k = "TokPercent" -> "%"
      [] k = "TokPipe" -> "|>"  [] k = "TokBang" -> "!"
      [] k = "TokLt" -> "<"     [] k = "TokLe" -> "<="   [] k = "TokGt" -> ">"
      [] k = "TokGe" -> ">="    [] k = "TokEqEq" -> "==" [] k = "TokNe" -> "!="
      [] k = "TokAnd" -> "and"  [] k = "TokOr" -> "or"   [] k = "TokNot" -> "not"
      [] OTHER -> k

\* TokKind.String, as characters, for the tokens that carry no lexeme
KindChars(k) ==
    CASE k = "TokIndent" -> <<"I", "N", "D", "E", "N", "T">>
      [] k = "TokDedent" -> <<"D", "E", "D", "E", "N", "T">>
      [] k = "TokNewline" -> <<"N", "E", "W", "L", "I", "N", "E">>
      [] OTHER -> <<"E", "O", "F">>

\* NewFromSource: p.tok is the token at pos; past the end the source
\* keeps answering EOF
NewFromSource(toks) == [toks |-> toks, pos |-> 1]
tok(p) == IF p.pos <= Len(p.toks) THEN p.toks[p.pos] ELSE Tok("TokEOF", <<>>)
next(p) == [p EXCEPT !.pos = @ + 1]
at(p, k) == tok(p).Kind = k
accept(p, k) == IF at(p, k) THEN [ok |-> TRUE, p |-> next(p)] ELSE [ok |-> FALSE, p |-> p]

\* results of the parse functions: (value, error)
Ok(p, v) == [ok |-> TRUE, p |-> p, v |-> v]
Fail(p) == [ok |-> FALSE, p |-> p, v |-> NoNode]
expect(p, k) == IF ~at(p, k) THEN Fail(p) ELSE Ok(next(p), tok(p))

\* `x, err := ...; if err != nil { return nil, err }`, then the rest K(x)
Bind(r, K(_)) == IF r.ok THEN K(r) ELSE Fail(r.p)

\* (mutant) the comparisons bind looser than == and !=
binPrecSwapped(k) ==
    CASE k = "TokPipe" -> 1
      [] k = "TokOr" -> 2
      [] k = "TokAnd" -> 3
      [] k \in {"TokEqEq", "TokNe"} -> 5
      [] k \in {"TokLt", "TokLe", "TokGt", "TokGe"} -> 4
      [] k \in {"TokPlus", "TokMinus"} -> 6
      [] k \in {"TokStar", "TokSlash", "TokPercent"} -> 7
      [] OTHER -> 0

binPrec(k) ==
    CASE k = "TokPipe" -> 1
      [] k = "TokOr" -> 2
      [] k = "TokAnd" -> 3
      [] k \in {"TokEqEq", "TokNe"} -> 4
      [] k \in {"TokLt", "TokLe", "TokGt", "TokGe"} -> 5
      [] k \in {"TokPlus", "TokMinus"} -> 6
      [] k \in {"TokStar", "TokSlash", "TokPercent"} -> 7
      [] OTHER -> 0

RECURSIVE parseExpr(_), parseUnary(_), parsePrimary(_), parsePostfix(_, _)
RECURSIVE parseArgs(_, _), parseBinaryRHS(_, _, _), parseTighter(_, _, _)

parseExpr(p) ==
    IF at(p, "TokErr") THEN Fail(p)
    ELSE Bind(parseUnary(p), LAMBDA left : parseBinaryRHS(left.p, 1, left.v))

parseExprWithLHS(p, lhs) ==
    IF at(p, "TokErr") THEN Fail(p)
    ELSE Bind(parsePostfix(p, lhs), LAMBDA post : parseBinaryRHS(post.p, 1, post.v))

parseUnary(p) ==
    IF at(p, "TokErr") THEN Fail(p)
    ELSE IF tok(p).Kind \in {"TokMinus", "TokBang", "TokNot"}
    THEN Bind(parseUnary(next(p)), LAMBDA x :
            Ok(x.p, [e |-> "UnaryExpr", Op |-> KindString(tok(p).Kind), X |-> x.v]))
    ELSE parsePrimary(p)

\* the node of an identifier or literal token
primaryNode(t) ==
    CASE t.Kind = "TokIdent" -> [e |-> "IdentExpr", Name |-> t.Lex]
      [] t.Kind = "TokInt" -> [e |-> "IntLit", Value |-> t.Lex]
      [] t.Kind = "TokStr" -> [e |-> "StrLit", Value |-> t.Lex]
      [] t.Kind = "TokTrue" -> [e |-> "BoolLit", Value |-> TRUE]
      [] t.Kind = "TokFalse" -> [e |-> "BoolLit", Value |-> FALSE]

parsePrimary(p) ==
    CASE at(p, "TokErr") -> Fail(p)
      [] tok(p).Kind \in {"TokIdent", "TokInt", "TokStr", "TokTrue", "TokFalse"} ->
            parsePostfix(next(p), primaryNode(tok(p)))
      [] at(p, "TokLParen") ->
            Bind(parseExpr(next(p)), LAMBDA x :
            Bind(expect(x.p, "TokRParen"), LAMBDA r : parsePostfix(r.p, x.v)))
      [] OTHER -> Fail(p)

\* the argument loop of a call, entered after "("
parseArgs(p, args) ==
    IF at(p, "TokRParen") THEN Ok(next(p), args)
    ELSE IF at(p, "TokErr") THEN Fail(p)
    ELSE Bind(parseExpr(p), LAMBDA a :
            IF at(a.p, "TokComma") THEN parseArgs(next(a.p), Append(args, a.v))
            ELSE Bind(expect(a.p, "TokRParen"), LAMBDA r : Ok(r.p, Append(args, a.v))))

parsePostfix(p, base) ==
    CASE at(p, "TokLParen") ->
            Bind(parseArgs(next(p), <<>>), LAMBDA a :
                parsePostfix(a.p, [e |-> "CallExpr", Callee |-> base, Args |-> a.v]))
      [] at(p, "TokLBrack") ->
            Bind(parseExpr(next(p)), LAMBDA idx :
            Bind(expect(idx.p, "TokRBrack"), LAMBDA r :
                parsePostfix(r.p, [e |-> "IndexExpr", Seq |-> base, Index |-> idx.v])))
      [] at(p, "TokDot") ->
            Bind(expect(next(p), "TokIdent"), LAMBDA id :
                parsePostfix(id.p, [e |-> "FieldExpr", X |-> base, Name |-> id.v.Lex]))
      [] OTHER -> Ok(p, base)

\* the inner loop of parseBinaryRHS: operators binding tighter than prec
parseTighter(p, prec, right) ==
    IF binPrec(tok(p).Kind) = 0 \/ binPrec(tok(p).Kind) <= prec THEN Ok(p, right)
    ELSE Bind(parseBinaryRHS(p, prec + 1, right), LAMBDA r : parseTighter(r.p, prec, r.v))

parseBinaryRHS(p, minPrec, left) ==
    IF binPrec(tok(p).Kind) = 0 \/ binPrec(tok(p).Kind) < minPrec THEN Ok(p, left)
    ELSE Bind(parseUnary(next(p)), LAMBDA r0 :
         Bind(parseTighter(r0.p, binPrec(tok(p).Kind), r0.v), LAMBDA right :
            parseBinaryRHS(right.p, minPrec,
                [e |-> "BinaryExpr", Op |-> KindString(tok(p).Kind),
                 Left |-> left, Right |-> right.v])))

\* the loop of parseExprListUntilNewline after the first expression
RECURSIVE parseExprListRest(_, _)
\* (mutant) an expression is required after every comma
parseExprListNoTrailing(p, xs) ==
    IF ~at(p, "TokComma") THEN Ok(p, xs)
    ELSE Bind(parseExpr(next(p)), LAMBDA e2 : parseExprListRest(e2.p, Append(xs, e2.v)))

parseExprListRest(p, xs) ==
    IF ~at(p, "TokComma") THEN Ok(p, xs)
    ELSE IF at(next(p), "TokNewline") THEN Ok(next(p), xs)
    ELSE Bind(parseExpr(next(p)), LAMBDA e2 : parseExprListRest(e2.p, Append(xs, e2.v)))

parseExprListUntilNewline(p) ==
    Bind(parseExpr(p), LAMBDA e1 : parseExprListRest(e1.p, <<e1.v>>))

\* strings.TrimSpace on a sequence of characters
WhiteSpace == {" ", "\t", "\n", "\r"}
RECURSIVE TrimSpace(_)
TrimSpace(t) ==
    IF t = <<>> THEN t
    ELSE IF t[1] \in WhiteSpace THEN TrimSpace(Tail(t))
    ELSE IF Last(t) \in WhiteSpace THEN TrimSpace(Front(t))
    ELSE t

\* parseTypeUntil: the type text is the lexemes joined by single spaces
RECURSIVE parseTypeUntil(_, _, _, _, _)
parseTypeUntil(p, stoppers, b, depthParen, depthBrack) ==
    LET k == tok(p).Kind IN
    IF depthParen = 0 /\ depthBrack = 0 /\ k \in stoppers THEN Ok(p, TrimSpace(b))
    ELSE IF k \in {"TokEOF", "TokNewline", "TokColon"} THEN Ok(p, TrimSpace(b))
    ELSE LET dp == CASE k = "TokLParen" -> depthParen + 1
                     [] k = "TokRParen" /\ depthParen > 0 -> depthParen - 1
                     [] OTHER -> depthParen
             db == CASE k = "TokLBrack" -> depthBrack + 1
                     [] k = "TokRBrack" /\ depthBrack > 0 -> depthBrack - 1
                     [] OTHER -> depthBrack
             word == IF tok(p).Lex # <<>> THEN tok(p).Lex ELSE KindChars(k)
             b2 == IF b # <<>> THEN b \o <<" ">> \o word ELSE word
         IN parseTypeUntil(next(p), stoppers, b2, dp, db)

\* parseLetBind: Ident ( ":" Type )?
parseLetBind(p, stoppers) ==
    Bind(expect(p, "TokIdent"), LAMBDA id :
        IF at(id.p, "TokColon")
        THEN Bind(parseTypeUntil(next(id.p), stoppers, <<>>, 0, 0), LAMBDA ty :
                Ok(ty.p, [Name |-> id.v.Lex, Type |-> ty.v]))
        ELSE Ok(id.p, [Name |-> id.v.Lex, Type |-> <<>>]))

\* the binder loops of parseLetStmt: binder ("," binder)*
RECURSIVE parseLetBinds(_, _, _)
parseLetBinds(p, stoppers, binds) ==
    Bind(parseLetBind(p, stoppers), LAMBDA b :
        IF at(b.p, "TokComma") THEN parseLetBinds(next(b.p), stoppers, Append(binds, b.v))
        ELSE Ok(b.p, Append(binds, b.v)))

\* the left-hand side of parseLetStmt: binds and optional group type
parseLetLHS(p) ==
    IF at(p, "TokLParen")
    THEN Bind(parseLetBinds(next(p), {"TokComma", "TokRParen", "TokEq"}, <<>>), LAMBDA bs :
         Bind(expect(bs.p, "TokRParen"), LAMBDA r :
            IF at(r.p, "TokColon")
            THEN Bind(parseTypeUntil(next(r.p), {"TokEq"}, <<>>, 0, 0), LAMBDA ty :
                    Ok(ty.p, [binds |-> bs.v, groupType |-> ty.v]))
            ELSE Ok(r.p, [binds |-> bs.v, groupType |-> <<>>])))
    ELSE Bind(parseLetBinds(p, {"TokComma", "TokEq", "TokNewline"}, <<>>), LAMBDA bs :
            Ok(bs.p, [binds |-> bs.v, groupType |-> <<>>]))

\* parseLetStmt, entered after "let"
parseLetStmt(p) ==
    Bind(parseLetLHS(accept(p, "TokMut").p), LAMBDA lhs :
    Bind(expect(lhs.p, "TokEq"), LAMBDA eq :
    Bind(parseExprListUntilNewline(eq.p), LAMBDA values :
    Bind(expect(values.p, "TokNewline"), LAMBDA nl :
        Ok(nl.p, [s |-> "LetStmt", Mutable |-> accept(p, "TokMut").ok,
                  Binds |-> lhs.v.binds, GroupType |-> lhs.v.groupType,
                  Values |-> values.v])))))

\* the tail shared by both assignment forms: exprs NEWLINE
parseAssignRHS(p, names) ==
    Bind(parseExprListUntilNewline(p), LAMBDA exprs :
    Bind(expect(exprs.p, "TokNewline"), LAMBDA nl :
        Ok(nl.p, [s |-> "AssignStmt", Names |-> names, Exprs |-> exprs.v])))

\* the name loop of a parallel assignment, entered after "a ,"
RECURSIVE parseAssignNames(_, _)
parseAssignNames(p, names) ==
    Bind(expect(p, "TokIdent"), LAMBDA id :
        IF at(id.p, "TokComma") THEN parseAssignNames(next(id.p), Append(names, id.v.Lex))
        ELSE Ok(id.p, Append(names, id.v.Lex)))

\* an expression followed by NEWLINE makes the statement mk(expr)
exprThenNewline(x, mk(_)) ==
    Bind(x, LAMBDA e1 : Bind(expect(e1.p, "TokNewline"), LAMBDA nl : Ok(nl.p, mk(e1.v))))

ExprStmt(x) == [s |-> "ExprStmt", Expr |-> x]
ReturnStmt(x) == [s |-> "ReturnStmt", Expr |-> x]
DeferStmt(x) == [s |-> "DeferStmt", Call |-> x]

parseAssignOrExpr(p) ==
    CASE at(next(p), "TokAssign") -> parseAssignRHS(next(next(p)), <<tok(p).Lex>>)
      [] at(next(p), "TokComma") ->
            Bind(parseAssignNames(next(next(p)), <<tok(p).Lex>>), LAMBDA names :
            Bind(expect(names.p, "TokAssign"), LAMBDA as : parseAssignRHS(as.p, names.v)))
      [] OTHER ->
            exprThenNewline(parseExprWithLHS(next(p), [e |-> "IdentExpr", Name |-> tok(p).Lex]),
                            ExprStmt)

\* parseStmt for the statements that fit on one line
parseStmt(p) ==
    CASE at(p, "TokErr") -> Fail(p)
      [] at(p, "TokLet") -> parseLetStmt(next(p))
      [] at(p, "TokIdent") -> parseAssignOrExpr(p)
      [] at(p, "TokReturn") ->
            IF at(next(p), "TokNewline") THEN Ok(next(next(p)), ReturnStmt(NoNode))
            ELSE exprThenNewline(parseExpr(next(p)), ReturnStmt)
      [] at(p, "TokDefer") -> exprThenNewline(parseExpr(next(p)), DeferStmt)
      [] OTHER -> exprThenNewline(parseExpr(p), ExprStmt)

\* parseBlock up to its first statement: NEWLINE INDENT
parseBlockOpen(p) ==
    Bind(expect(p, "TokNewline"), LAMBDA nl : expect(nl.p, "TokIndent"))

\* the head of if / elif / while up to the opening of its block:
\* keyword Expr ":" NEWLINE INDENT   (parseIfStmt, parseWhileStmt, parseBlock)
parseHead(p, kw) ==
    Bind(expect(p, kw), LAMBDA k :
    Bind(parseExpr(k.p), LAMBDA cond :
    Bind(expect(cond.p, "TokColon"), LAMBDA c1 :
    Bind(parseBlockOpen(c1.p), LAMBDA ind : Ok(ind.p, cond.v)))))

\* the head of else: "else" ":" NEWLINE INDENT
parseElseHead(p) ==
    Bind(expect(p, "TokElse"), LAMBDA k :
    Bind(expect(k.p, "TokColon"), LAMBDA c1 :
    Bind(parseBlockOpen(c1.p), LAMBDA ind : Ok(ind.p, NoNode))))

(***************************************************************************)
(*                         SEMANTIC CHECKER                                *)
(* Kinds are named by Kind.String.  A checker value c holds the fields of  *)
(* the checker struct; the varInfo objects live in c.heap and are referred *)
(* to by index (0 is "not found"); c.scope is the chain of scopes, the     *)
(* innermost last.                                                         *)
(***************************************************************************)

UpperCase == <<"A", "B", "C", "D", "E", "F", "G", "H", "I", "J", "K", "L", "M",
               "N", "O", "P", "Q", "R", "S", "T", "U", "V", "W", "X", "Y", "Z">>
LowerCase == <<"a", "b", "c", "d", "e", "f", "g", "h", "i", "j", "k", "l", "m",
               "n", "o", "p", "q", "r", "s", "t", "u", "v", "w", "x", "y", "z">>

\* strings.ToLower
ToLower(t) ==
    [i \in 1..Len(t) |->
        IF \E j \in 1..Len(UpperCase) : UpperCase[j] = t[i]
        THEN LowerCase[CHOOSE j \in 1..Len(UpperCase) : UpperCase[j] = t[i]]
        ELSE t[i]]

mapTextType(t) ==
    LET w == TrimSpace(ToLower(t)) IN
    CASE w \in {<<>>, <<"v", "o", "i", "d">>} -> "void"
      [] w \in {<<"i", "3", "2">>, <<"i", "n", "t">>, <<"u", "3", "2">>} -> "int"
      [] w = <<"b", "o", "o", "l">> -> "bool"
      [] w \in {<<"s", "t", "r">>, <<"s", "t", "r", "i", "n", "g">>} -> "str"
      [] OTHER -> "unknown"

\* (mutant) for int with bool the first kind is kept
unifyFirstWins(a, b) ==
    CASE a = "unknown" -> [k |-> b, ok |-> TRUE]
      [] b = "unknown" -> [k |-> a, ok |-> TRUE]
      [] a = b -> [k |-> a, ok |-> TRUE]
      [] (a = "int" /\ b = "bool") \/ (a = "bool" /\ b = "int") -> [k |-> a, ok |-> TRUE]
      [] OTHER -> [k |-> "unknown", ok |-> FALSE]

unifyKinds(a, b) ==
    CASE a = "unknown" -> [k |-> b, ok |-> TRUE]
      [] b = "unknown" -> [k |-> a, ok |-> TRUE]
      [] a = b -> [k |-> a, ok |-> TRUE]
      [] (a = "int" /\ b = "bool") \/ (a = "bool" /\ b = "int") -> [k |-> "int", ok |-> TRUE]
      [] OTHER -> [k |-> "unknown", ok |-> FALSE]

min(a, b) == IF a < b THEN a ELSE b

\* push / pop / top on slices
push(s, v) == Append(s, v)
pop(s) == Front(s)
top(s) == Last(s)

\* an empty map[string]T
EmptyMap == [n \in {} |-> 0]
MapPut(m, key, v) == [n \in DOMAIN m \cup {key} |-> IF n = key THEN v ELSE m[n]]

\* scope.lookup: innermost scope first
RECURSIVE lookupFrom(_, _, _)
lookupFrom(c, name, d) ==
    IF d = 0 THEN 0
    ELSE IF name \in DOMAIN c.scope[d] THEN c.scope[d][name]
    ELSE lookupFrom(c, name, d - 1)

lookup(c, name) == lookupFrom(c, name, Len(c.scope))

\* &varInfo{...}: the new object is the last of the heap
alloc(c, v) == [c EXCEPT !.heap = Append(@, v)]

\* scope.define in the current scope
define(c, name, vi) ==
    IF name \in DOMAIN top(c.scope) THEN [ok |-> FALSE, c |-> c]
    ELSE [ok |-> TRUE, c |-> [c EXCEPT !.scope[Len(c.scope)] = MapPut(@, name, vi)]]

appendErr(c, err) == [c EXCEPT !.errors = Append(@, err)]
appendWarn(c, code, msg) == [c EXCEPT !.warnings = Append(@, [Code |-> code, Msg |-> msg])]

\* typedErr formats "%s: %s in %s: names=%d, values=%d"
typedErrSwapped(domain, key, fallbackID, fallbackTitle, context, names, values) ==
    [msg |-> "%s: %s in %s: names=%d, values=%d", id |-> fallbackID,
     title |-> fallbackTitle, context |-> context, names |-> values, values |-> names]

typedErr(domain, key, fallbackID, fallbackTitle, context, names, values) ==
    [msg |-> "%s: %s in %s: names=%d, values=%d", id |-> fallbackID,
     title |-> fallbackTitle, context |-> context, names |-> names, values |-> values]

\* the std shims with a fixed arity: module, name, return kind and, per
\* argument, the kinds accepted without an error
StdShims ==
    {[mod |-> <<"f", "s">>, name |-> <<"r", "e", "a", "d", "_", "a", "l", "l">>,
      ret |-> "str", args |-> <<{"str", "unknown"}>>],
     [mod |-> <<"o", "s">>, name |-> <<"e", "x", "i", "t">>,
      ret |-> "void", args |-> <<{"int", "unknown"}>>],
     [mod |-> <<"m", "e", "m">>, name |-> <<"f", "r", "e", "e">>,
      ret |-> "void", args |-> <<{"str", "unknown", "void"}>>],
     [mod |-> <<"s", "t", "r">>, name |-> <<"l", "e", "n">>,
      ret |-> "int", args |-> <<{"str", "unknown"}>>],
     [mod |-> <<"s", "t", "r">>, name |-> <<"a", "t">>,
      ret |-> "int", args |-> <<{"str", "unknown"}, {"int", "unknown"}>>],
     [mod |-> <<"s", "t", "r">>, name |-> <<"f", "r", "o", "m", "_", "c", "o", "d", "e">>,
      ret |-> "str", args |-> <<{"int", "unknown"}>>]}

IoPrintln == [mod |-> <<"i", "o">>, name |-> <<"p", "r", "i", "n", "t", "l", "n">>]

binaryKind(op, lk, rk) ==
    CASE op = "+" -> IF lk = "str" \/ rk = "str" THEN "str"
                     ELSE IF lk = "int" /\ rk = "int" THEN "int" ELSE "unknown"
      [] op \in {"-", "*", "/", "%", "<", "<=", ">", ">=", "==", "!="} ->
                     IF unifyKinds(lk, rk).ok THEN "int" ELSE "unknown"
      [] op \in {"and", "or", "|>"} -> "int"
      [] OTHER -> "unknown"

\* the result of kindOfExpr: the kind, and the checker after its effects
K(c, k) == [c |-> c, k |-> k]

\* `x := f(...)`, then the rest F(x)
With(v, F(_)) == F(v)

RECURSIVE kindOfExpr(_, _), printlnArgs(_, _, _), shimArgs(_, _, _, _), userArgs(_, _, _, _, _)

\* io.println: the switch on the kind of argument i
printlnArg(a, i) ==
    CASE a.k \in {"int", "str", "bool"} -> a.c
      [] a.k = "void" -> appendErr(a.c, [msg |-> "io.println arg %d is void (no value)", arg |-> i])
      [] OTHER -> appendErr(a.c, [msg |-> "io.println arg %d has unsupported kind %s",
                                  arg |-> i, got |-> a.k])

\* io.println: every argument is evaluated
printlnArgs(c, args, i) ==
    IF i > Len(args) THEN c
    ELSE printlnArgs(printlnArg(kindOfExpr(c, args[i]), i), args, i + 1)

\* a fixed-arity shim: the test on the kind of argument i
shimArg(a, sh, i) ==
    IF a.k \in sh.args[i] THEN a.c
    ELSE appendErr(a.c, [msg |-> "shim argument kind", shim |-> sh.name, arg |-> i, got |-> a.k])

\* a fixed-arity shim whose argument count is right
shimArgs(c, sh, args, i) ==
    IF i > Len(args) THEN c
    ELSE shimArgs(shimArg(kindOfExpr(c, args[i]), sh, i), sh, args, i + 1)

\* a call of a declared function: argument i against parameter i
userArg(a, name, sig, i) ==
    IF unifyKinds(sig.Params[i], a.k).ok THEN a.c
    ELSE appendErr(a.c, [msg |-> "call to %s: arg %d kind mismatch (want %s, got %s)",
                         name |-> name, arg |-> i, want |-> sig.Params[i], got |-> a.k])

\* a call of a declared function: the first n arguments against the parameters
userArgs(c, name, sig, args, i) ==
    IF i > min(Len(sig.Params), Len(args)) THEN c
    ELSE userArgs(userArg(kindOfExpr(c, args[i]), name, sig, i), name, sig, args, i + 1)

\* the callee is the std shim sh: module.name
isShim(fe, sh) ==
    /\ fe.e = "FieldExpr" /\ fe.X.e = "IdentExpr"
    /\ fe.X.Name = sh.mod /\ fe.Name = sh.name

\* kindOfExpr, case *ast.CallExpr on a fixed-arity shim
shimCall(c, e, sh) ==
    IF Len(e.Args) # Len(sh.args)
    THEN K(appendErr(c, [msg |-> "shim argument count", shim |-> sh.name,
                         want |-> Len(sh.args), got |-> Len(e.Args)]), sh.ret)
    ELSE K(shimArgs(c, sh, e.Args, 1), sh.ret)

\* kindOfExpr, case *ast.CallExpr on a declared function
userCall(c, e, sig) ==
    K(userArgs(IF Len(sig.Params) # Len(e.Args)
               THEN appendErr(c, [msg |-> "call to %s: want %d args, got %d", name |-> e.Callee.Name,
                                  want |-> Len(sig.Params), got |-> Len(e.Args)])
               ELSE c,
               e.Callee.Name, sig, e.Args, 1),
      sig.Ret)

kindOfExpr(c, e) ==
    CASE e.e = "IntLit" -> K(c, "int")
      [] e.e = "StrLit" -> K(c, "str")
      [] e.e = "BoolLit" -> K(c, "bool")
      [] e.e = "IdentExpr" ->
            IF lookup(c, e.Name) # 0
            THEN K([c EXCEPT !.heap[lookup(c, e.Name)].read = TRUE], c.heap[lookup(c, e.Name)].kind)
            ELSE IF e.Name \in DOMAIN c.info THEN K(c, "unknown")
            ELSE K(appendErr(c, [msg |-> "use of undeclared identifier %q", name |-> e.Name]), "unknown")
      [] e.e = "UnaryExpr" ->
            With(kindOfExpr(c, e.X), LAMBDA x :
                IF e.Op \in {"-", "!", "not"} /\ x.k \in {"int", "bool", "unknown"}
                THEN K(x.c, "int") ELSE K(x.c, "unknown"))
      [] e.e = "BinaryExpr" ->
            With(kindOfExpr(c, e.Left), LAMBDA l :
            With(kindOfExpr(l.c, e.Right), LAMBDA r :
                K(r.c, binaryKind(e.Op, l.k, r.k))))
      [] e.e = "FieldExpr" -> K(c, "unknown")
      [] e.e = "IndexExpr" -> K(c, "unknown")
      [] e.e = "CallExpr" ->
            IF isShim(e.Callee, IoPrintln) THEN K(printlnArgs(c, e.Args, 1), "void")
            ELSE IF \E sh \in StdShims : isShim(e.Callee, sh)
            THEN shimCall(c, e, CHOOSE sh \in StdShims : isShim(e.Callee, sh))
            ELSE IF e.Callee.e = "IdentExpr"
            THEN IF e.Callee.Name \in DOMAIN c.info
                 THEN userCall(c, e, c.info[e.Callee.Name])
                 ELSE K(appendErr(c, [msg |-> "call to unknown function %q", name |-> e.Callee.Name]),
                        "unknown")
            ELSE K(c, "unknown")
      [] OTHER -> K(c, "unknown")

\* (mutant) no statement is reported as unreachable
noUnreachableCheck(c) == c

\* checkStmt's first step: a statement met after the block has returned
unreachableCheck(c) ==
    IF c.blockReturned # <<>> /\ top(c.blockReturned)
    THEN appendWarn(c, "W0004", [text |-> "unreachable code: statement after return"])
    ELSE c

\* *br = true on the top of the block-returned stack
markReturned(c) ==
    IF c.blockReturned # <<>> THEN [c EXCEPT !.blockReturned[Len(c.blockReturned)] = TRUE] ELSE c

\* checkLet: the local is defined in the current scope
letDefine(c, bd) ==
    With(define(c, bd.Name, Len(c.heap)), LAMBDA d :
        IF ~d.ok THEN appendErr(d.c, [msg |-> "redeclaration of %q", name |-> bd.Name])
        ELSE [d.c EXCEPT !.locals = Append(@, Len(c.heap))])

\* checkLet: one bind with the kind rk of its value
letBind(c, st, bd, rk) ==
    LET want == IF TrimSpace(bd.Type) # <<>> THEN mapTextType(bd.Type) ELSE "unknown"
        u == unifyKinds(want, rk)
        kind == IF want # "unknown" /\ u.ok THEN u.k ELSE rk
    IN letDefine(alloc(IF want # "unknown" /\ ~u.ok
                       THEN appendErr(c, [msg |-> "let %q: type mismatch (declared %s, got %s)",
                                          name |-> bd.Name, declared |-> want, got |-> rk])
                       ELSE c,
                       [kind |-> kind, mutable |-> st.Mutable, declName |-> bd.Name,
                        read |-> FALSE, written |-> TRUE]),
                 bd)

\* the pair loop of checkLet
RECURSIVE checkLetPairs(_, _, _)
checkLetPairs(c, st, i) ==
    IF i > min(Len(st.Binds), Len(st.Values)) THEN c
    ELSE checkLetPairs(With(kindOfExpr(c, st.Values[i]), LAMBDA r : letBind(r.c, st, st.Binds[i], r.k)),
                       st, i + 1)

checkLet(c, st) ==
    checkLetPairs(IF Len(st.Binds) # Len(st.Values)
                  THEN appendErr(c, typedErr("type", "arity_mismatch", "DTE0002",
                                             "arity mismatch in grouped binding",
                                             "let", Len(st.Binds), Len(st.Values)))
                  ELSE c,
                  st, 1)

\* the test `!v.mutable` of checkAssign
neverImmutable(v) == FALSE
isImmutable(v) == ~v.mutable

\* checkAssign: the variable at vi is assigned a value of kind rk
assignVar(c, name, vi, rk) ==
    LET v == c.heap[vi]
        u == unifyKinds(v.kind, rk)
    IN IF isImmutable(v)
       THEN appendErr(c, [msg |-> "cannot assign to immutable variable %q", name |-> name])
       ELSE IF ~u.ok
       THEN [appendErr(c, [msg |-> "type mismatch: %q is %s but assigned %s",
                           name |-> name, is |-> v.kind, assigned |-> rk])
                EXCEPT !.heap[vi].written = TRUE]
       ELSE IF v.kind = "unknown"
       THEN [c EXCEPT !.heap[vi].kind = u.k, !.heap[vi].written = TRUE]
       ELSE [c EXCEPT !.heap[vi].written = TRUE]

\* checkAssign: one name with the kind rk of its value
assignName(c, name, rk) ==
    IF lookup(c, name) = 0
    THEN appendErr(c, [msg |-> "assign to undeclared variable %q", name |-> name])
    ELSE assignVar(c, name, lookup(c, name), rk)

\* the pair loop of checkAssign
RECURSIVE checkAssignPairs(_, _, _)
checkAssignPairs(c, st, i) ==
    IF i > min(Len(st.Names), Len(st.Exprs)) THEN c
    ELSE checkAssignPairs(With(kindOfExpr(c, st.Exprs[i]), LAMBDA r : assignName(r.c, st.Names[i], r.k)),
                          st, i + 1)

checkAssign(c, st) ==
    checkAssignPairs(IF Len(st.Names) # Len(st.Exprs)
                     THEN appendErr(c, typedErr("type", "arity_mismatch", "DTE0002",
                                                "arity mismatch in grouped binding",
                                                "assignment", Len(st.Names), Len(st.Exprs)))
                     ELSE c,
                     st, 1)

\* checkStmt, case *ast.ReturnStmt
checkReturn(c, st) ==
    IF st.Expr = NoNode
    THEN markReturned(IF c.fnSig.Ret # "void"
                      THEN appendErr(c, [msg |-> "missing return value; function returns %s",
                                         ret |-> c.fnSig.Ret])
                      ELSE c)
    ELSE With(kindOfExpr(c, st.Expr), LAMBDA got :
            IF c.fnSig.Ret = "void"
            THEN markReturned(appendErr(got.c, [msg |-> "return value in function returning void"]))
            ELSE markReturned(IF ~unifyKinds(c.fnSig.Ret, got.k).ok
                              THEN appendErr(got.c, [msg |-> "return kind mismatch: have %s, got %s",
                                                     have |-> c.fnSig.Ret, got |-> got.k])
                              ELSE got.c))

\* (mutant) a defer is accepted wherever it stands and whatever it holds
deferNoErrors(c, st) == c

\* checkStmt, case *ast.DeferStmt: the two tests before the call is checked
deferErrors(c, st) ==
    LET c1 == IF Len(c.blockReturned) > 1
              THEN appendErr(c, [msg |-> "defer is only allowed at function top-level in Stage-0"])
              ELSE c
    IN IF st.Call.e # "CallExpr"
       THEN appendErr(c1, [msg |-> "defer expects a call expression"])
       ELSE c1

\* checkStmt, case *ast.DeferStmt
checkDefer(c, st) == kindOfExpr(deferErrors(c, st), st.Call).c

\* checkStmt's switch for the statements without a block
checkStmtKind(c, st) ==
    CASE st.s = "LetStmt" -> checkLet(c, st)
      [] st.s = "AssignStmt" -> checkAssign(c, st)
      [] st.s = "ReturnStmt" -> checkReturn(c, st)
      [] st.s = "ExprStmt" -> kindOfExpr(c, st.Expr).c
      [] st.s = "DeferStmt" -> checkDefer(c, st)
      [] OTHER -> c

\* checkStmt for the statements without a block
checkStmt(c, st) == checkStmtKind(unreachableCheck(c), st)

\* the condition of if / elif / while
checkCond(c, what, cond) ==
    With(kindOfExpr(c, cond), LAMBDA k :
        IF k.k \notin {"bool", "int", "unknown"}
        THEN appendErr(k.c, [msg |-> "%s-condition must be bool/int, got %s",
                             what |-> what, got |-> k.k])
        ELSE k.c)

\* withBlock / withChildScope: before the body ...
withBlockEnter(c) ==
    [c EXCEPT !.blockReturned = push(@, FALSE), !.scope = Append(@, EmptyMap)]
\* ... and after it
withBlockLeave(c) ==
    [c EXCEPT !.scope = Front(@), !.blockReturned = pop(@)]

\* (mutant) a later declaration of a name replaces the signature kept for it
RECURSIVE collectLastSigs(_, _, _)
collectLastSigs(decls, i, st) ==
    IF i > Len(decls) THEN st
    ELSE collectLastSigs(decls, i + 1,
             [info |-> MapPut(st.info, decls[i].Name,
                          [Name |-> decls[i].Name,
                           Params |-> [j \in 1..Len(decls[i].Params) |->
                                          mapTextType(decls[i].Params[j].Type)],
                           Ret |-> mapTextType(decls[i].Ret)]),
              errs |-> IF decls[i].Name \in DOMAIN st.info
                       THEN Append(st.errs, [msg |-> "duplicate function %q", name |-> decls[i].Name])
                       ELSE st.errs])

\* CheckFile, pass 1: collect function signatures
RECURSIVE collectSigs(_, _, _)
collectSigs(decls, i, st) ==
    IF i > Len(decls) THEN st
    ELSE LET fn == decls[i] IN
         IF fn.Name \in DOMAIN st.info
         THEN collectSigs(decls, i + 1,
                  [st EXCEPT !.errs = Append(@, [msg |-> "duplicate function %q", name |-> fn.Name])])
         ELSE collectSigs(decls, i + 1,
                  [st EXCEPT !.info = MapPut(@, fn.Name,
                      [Name |-> fn.Name,
                       Params |-> [j \in 1..Len(fn.Params) |-> mapTextType(fn.Params[j].Type)],
                       Ret |-> mapTextType(fn.Ret)])])

\* checkFunc: one parameter, whose varInfo is the last of the heap
defineParam(c, p, i) ==
    With(define(c, p.Name, Len(c.heap)), LAMBDA d :
        [(IF ~d.ok
          THEN appendErr(d.c, [msg |-> "parameter %d %q: %v", index |-> i - 1, name |-> p.Name,
                               err |-> "redeclaration of %q"])
          ELSE d.c)
            EXCEPT !.locals = Append(@, Len(c.heap))])

\* checkFunc: the parameter loop
RECURSIVE defineParams(_, _, _)
defineParams(c, params, i) ==
    IF i > Len(params) THEN c
    ELSE defineParams(
            defineParam(alloc(c, [kind |-> mapTextType(params[i].Type), mutable |-> FALSE,
                                  declName |-> params[i].Name, read |-> FALSE, written |-> TRUE]),
                        params[i], i),
            params, i + 1)

\* checkFunc up to the loop over the body
checkFuncBegin(info, fn) ==
    [defineParams([info |-> info, fnSig |-> info[fn.Name], scope |-> <<EmptyMap>>, heap |-> <<>>,
                   errors |-> <<>>, warnings |-> <<>>, locals |-> <<>>, blockReturned |-> <<>>],
                  fn.Params, 1)
        EXCEPT !.blockReturned = push(@, FALSE)]

\* checkFunc: the unused-variable loop
RECURSIVE unusedWarnings(_, _)
unusedWarnings(c, i) ==
    IF i > Len(c.locals) THEN c
    ELSE LET v == c.heap[c.locals[i]] IN
         IF v.declName # <<>> /\ v.declName[1] = "_" THEN unusedWarnings(c, i + 1)
         ELSE IF ~v.read
         THEN unusedWarnings(appendWarn(c, "W0001", [text |-> "unused variable or parameter %q",
                                                     name |-> v.declName]), i + 1)
         ELSE unusedWarnings(c, i + 1)

\* checkFunc after the loop over the body
checkFuncEnd(c, fn) ==
    unusedWarnings(
        IF c.fnSig.Ret # "void" /\ ~top(c.blockReturned)
        THEN appendWarn([c EXCEPT !.blockReturned = pop(@)], "W0006",
                 [text |-> "function %q returns %s but may fall through without an explicit return",
                  name |-> fn.Name, ret |-> c.fnSig.Ret])
        ELSE [c EXCEPT !.blockReturned = pop(@)],
        1)

(***************************************************************************)
(* The checker at work on one function.  The declaration is given; the     *)
(* body arrives as the tokens of its lines, one chunk at a time, in source *)
(* order: each chunk is parsed and the resulting statement (or block head, *)
(* or block end) is checked.  A chunk the parser rejects ends the run: the *)
(* file has a parse error and is never checked.                            *)
(***************************************************************************)

\* Bound: statements in the function body (a block statement counts as one).
MaxStmts == 3
\* Bound: depth of nested blocks, the function body included.
MaxDepth == 2

tLet == Tok("TokLet", <<"l", "e", "t">>)
tMut == Tok("TokMut", <<"m", "u", "t">>)
tReturn == Tok("TokReturn", <<"r", "e", "t", "u", "r", "n">>)
tIf == Tok("TokIf", <<"i", "f">>)
tElif == Tok("TokElif", <<"e", "l", "i", "f">>)
tElse == Tok("TokElse", <<"e", "l", "s", "e">>)
tWhile == Tok("TokWhile", <<"w", "h", "i", "l", "e">>)
tEq == Tok("TokEq", <<"=">>)
tAssign == Tok("TokAssign", <<":", "=">>)
tComma == Tok("TokComma", <<",">>)
tColon == Tok("TokColon", <<":">>)
tNewline == Tok("TokNewline", <<>>)
tIndent == Tok("TokIndent", <<>>)
tDedent == Tok("TokDedent", <<>>)
idX == Tok("TokIdent", <<"x">>)
idY == Tok("TokIdent", <<"y">>)
idP == Tok("TokIdent", <<"p">>)
idZ == Tok("TokIdent", <<"z">>)
int1 == Tok("TokInt", <<"1">>)

\* t1 , t2 , ... , tn
RECURSIVE CommaList(_)
CommaList(ts) == IF Len(ts) <= 1 THEN ts ELSE <<ts[1], tComma>> \o CommaList(Tail(ts))

NameLists == {<<idX>>, <<idX, idY>>}
ValueLists == {<<int1>>, <<idZ, int1>>}
LetLines ==
    {<<tLet>> \o m \o CommaList(ns) \o <<tEq>> \o CommaList(vs) \o <<tNewline>> :
        m \in {<<>>, <<tMut>>}, ns \in NameLists, vs \in ValueLists}
AssignLines ==
    {CommaList(ns) \o <<tAssign>> \o CommaList(vs) \o <<tNewline>> :
        ns \in NameLists \cup {<<idP>>}, vs \in ValueLists}
ReturnLines == {<<tReturn, tNewline>>, <<tReturn, int1, tNewline>>}
ExprLines == {<<idX, tNewline>>}
\* lines the parser rejects
BadLines == {<<tLet, idX, tAssign, int1, tNewline>>, <<idX, tEq, int1, tNewline>>,
             <<tLet, idX, tComma, tEq, int1, tNewline>>}
StmtLines == LetLines \cup AssignLines \cup ReturnLines \cup ExprLines \cup BadLines
Conds == {<<idP>>}
BlockOpen == <<tColon, tNewline, tIndent>>

\* the declarations of the file: def f(p: T) -> int  or  def f(p: T)
FuncDecls ==
    {[Name |-> <<"f">>, Params |-> <<[Name |-> <<"p">>, Type |-> <<"T">>]>>, Ret |-> r] :
        r \in {<<"i", "n", "t">>, <<>>}}

NoChecker == [errors |-> <<>>, warnings |-> <<>>]

\* Execution paths of the body read so far, kept beside the checker: for
\* each open block, cc says that control can reach the current point of the
\* block, and any says that some earlier branch of the enclosing if
\* statement can run to its end.
PathsReturn(paths) == [paths EXCEPT ![Len(paths)].cc = FALSE]
PathsOpen(paths, any) == Append(paths, [cc |-> Last(paths).cc, any |-> any])
\* the if statement ends with its else branch: control goes on after it
\* only through a branch that can run to its end
PathsCloseIf(paths) ==
    [Front(paths) EXCEPT ![Len(paths) - 1].cc = Last(paths).any \/ Last(paths).cc]

CheckInit ==
    /\ \E d \in FuncDecls :
          prog = [decls |-> <<d>>, chunk |-> <<>>, stmt |-> NoNode, pre |-> NoChecker,
                  nstmts |-> 0, paths |-> <<>>, pend |-> FALSE]
    /\ chk = [phase |-> "collect", idx |-> 1, info |-> EmptyMap, errs |-> <<>>, warns |-> <<>>,
              c |-> NoChecker, ctl |-> <<>>, afterIf |-> FALSE]
    /\ lx = Idle /\ out = Idle /\ fs = Idle /\ res = Idle /\ bld = Idle

\* CheckFile, pass 1
CollectSigs ==
    /\ chk.phase = "collect"
    /\ \E st \in {collectSigs(prog.decls, 1, [info |-> EmptyMap, errs |-> <<>>])} :
          chk' = [chk EXCEPT !.phase = "func", !.info = st.info, !.errs = st.errs]
    /\ UNCHANGED <<prog, lx, out, fs, res, bld>>

\* CheckFile, pass 2: checkFunc is entered for the next declaration
StartFunc ==
    /\ chk.phase = "func"
    /\ \E c \in {checkFuncBegin(chk.info, prog.decls[chk.idx])} :
          /\ chk' = [chk EXCEPT !.phase = "body", !.c = c, !.ctl = <<[kind |-> "func", n |-> 0]>>,
                                !.afterIf = FALSE]
          /\ prog' = [prog EXCEPT !.chunk = <<>>, !.stmt = NoNode, !.pre = c, !.nstmts = 0,
                                  !.paths = <<[cc |-> TRUE, any |-> FALSE]>>]
    /\ UNCHANGED <<lx, out, fs, res, bld>>

\* the parser rejects the chunk
ParseError(chunk) ==
    /\ chk' = [chk EXCEPT !.phase = "parse_error"]
    /\ prog' = [prog EXCEPT !.chunk = chunk, !.stmt = NoNode, !.pre = chk.c]

\* one more statement in the current block
CountStmt(ctl) == [ctl EXCEPT ![Len(ctl)].n = @ + 1]

\* a statement on one line: parseStmt, then checkStmt
LineStmt ==
    /\ chk.phase = "body" /\ prog.nstmts < MaxStmts
    /\ \E line \in StmtLines : \E r \in {parseStmt(NewFromSource(line))} :
          IF ~r.ok THEN ParseError(line)
          ELSE /\ chk' = [chk EXCEPT !.c = checkStmt(chk.c, r.v), !.ctl = CountStmt(@),
                                     !.afterIf = FALSE]
               /\ prog' = [prog EXCEPT !.chunk = line, !.stmt = r.v, !.pre = chk.c,
                                       !.nstmts = @ + 1,
                                       !.paths = IF r.v.s = "ReturnStmt" THEN PathsReturn(@) ELSE @]
    /\ UNCHANGED <<lx, out, fs, res, bld>>

\* a block head has been parsed: the condition is checked and withBlock
\* is entered
EnterBlock(chunk, c, kind, stmts, any) ==
    /\ chk' = [chk EXCEPT !.c = withBlockEnter(c),
                          !.ctl = Append(IF stmts = 1 THEN CountStmt(@) ELSE @,
                                         [kind |-> kind, n |-> 0]),
                          !.afterIf = FALSE]
    /\ prog' = [prog EXCEPT !.chunk = chunk, !.stmt = NoNode, !.pre = chk.c,
                            !.nstmts = @ + stmts, !.paths = PathsOpen(@, any)]

\* `if cond:` or `while cond:` opens a block
BlockHead(kw, what, kind) ==
    /\ chk.phase = "body" /\ prog.nstmts + 1 < MaxStmts /\ Len(chk.ctl) < MaxDepth
    /\ \E cond \in Conds : \E r \in {parseHead(NewFromSource(<<kw>> \o cond \o BlockOpen), kw.Kind)} :
          IF ~r.ok THEN ParseError(<<kw>> \o cond \o BlockOpen)
          ELSE EnterBlock(<<kw>> \o cond \o BlockOpen,
                          checkCond(unreachableCheck(chk.c), what, r.v), kind, 1, FALSE)
    /\ UNCHANGED <<lx, out, fs, res, bld>>

IfHead == BlockHead(tIf, "if", "then")
WhileHead == BlockHead(tWhile, "while", "while")

\* `elif cond:` after the end of a then- or elif-block
ElifHead ==
    /\ chk.phase = "body" /\ chk.afterIf /\ prog.nstmts < MaxStmts
    /\ \E cond \in Conds : \E r \in {parseHead(NewFromSource(<<tElif>> \o cond \o BlockOpen), "TokElif")} :
          IF ~r.ok THEN ParseError(<<tElif>> \o cond \o BlockOpen)
          ELSE EnterBlock(<<tElif>> \o cond \o BlockOpen, checkCond(chk.c, "elif", r.v),
                          "elif", 0, prog.pend)
    /\ UNCHANGED <<lx, out, fs, res, bld>>

\* `else:` after the end of a then- or elif-block
ElseHead ==
    /\ chk.phase = "body" /\ chk.afterIf /\ prog.nstmts < MaxStmts
    /\ \E r \in {parseElseHead(NewFromSource(<<tElse>> \o BlockOpen))} :
          IF ~r.ok THEN ParseError(<<tElse>> \o BlockOpen)
          ELSE EnterBlock(<<tElse>> \o BlockOpen, chk.c, "else", 0, prog.pend)
    /\ UNCHANGED <<lx, out, fs, res, bld>>

\* DEDENT ends a nested block: withBlock returns
BlockEnd ==
    /\ chk.phase = "body" /\ Len(chk.ctl) > 1 /\ Last(chk.ctl).n >= 1
    /\ chk' = [chk EXCEPT !.c = withBlockLeave(@), !.ctl = Front(@),
                          !.afterIf = Last(chk.ctl).kind \in {"then", "elif"}]
    /\ prog' = [prog EXCEPT !.chunk = <<tDedent>>, !.stmt = NoNode, !.pre = chk.c,
                            !.pend = Last(prog.paths).any \/ Last(prog.paths).cc,
                            !.paths = IF Last(chk.ctl).kind = "else" THEN PathsCloseIf(@)
                                      ELSE Front(@)]
    /\ UNCHANGED <<lx, out, fs, res, bld>>

\* DEDENT ends the function body: checkFunc finishes and CheckFile appends
\* its errors and warnings
FuncEnd ==
    /\ chk.phase = "body" /\ Len(chk.ctl) = 1 /\ Last(chk.ctl).n >= 1
    /\ \E c \in {checkFuncEnd(chk.c, prog.decls[chk.idx])} :
          chk' = [chk EXCEPT !.c = c, !.ctl = <<>>, !.afterIf = FALSE,
                             !.errs = @ \o c.errors, !.warns = @ \o c.warnings,
                             !.idx = @ + 1,
                             !.phase = IF chk.idx = Len(prog.decls) THEN "done" ELSE "func"]
    /\ prog' = [prog EXCEPT !.chunk = <<tDedent>>, !.stmt = NoNode, !.pre = chk.c]
    /\ UNCHANGED <<lx, out, fs, res, bld>>

CheckNext ==
    \/ CollectSigs \/ StartFunc \/ LineStmt \/ IfHead \/ WhileHead
    \/ ElifHead \/ ElseHead \/ BlockEnd \/ FuncEnd

SpecCheck == CheckInit /\ [][CheckNext]_vars

(***************************************************************************)
(*                          BUILD COMMAND                                  *)
(* desic build: the arguments are words; the outcomes of the resolver and  *)
(* of the checker (how many errors and warnings they report) and of the    *)
(* file system and C compiler calls are given with the invocation.         *)
(***************************************************************************)

\* Bound: number of command-line words after `build`.
MaxArgs == 3

ArgWords == {"--no-cc", "--Werror", "--out", "--", "-x", "a.desi"}
\* how many diagnostics a stage reports
DiagCounts == 0..1

\* flags taking their value from the next word, and in the form flag=value
ValueFlags == {"--cc-bin", "--cc", "--cc-arg", "--runtime-dir", "--out"}
EqForms == {<<"--cc-bin=c", "--cc-bin", "c">>, <<"--cc=c", "--cc", "c">>,
            <<"--cc-arg=g", "--cc-arg", "g">>, <<"--runtime-dir=r", "--runtime-dir", "r">>,
            <<"--out=o", "--out", "o">>}
SwitchFlags == {"--no-cc", "--Werror", "--werror", "--use-desi-lexer", "--verbose"}
\* strings.HasPrefix(s, "-") on the words in use
hasDashPrefix(s) ==
    s \in {"--", "-x"} \cup SwitchFlags \cup ValueFlags \cup {f[1] : f \in EqForms}

\* the zero buildArgs
noBuildArgs ==
    [noCC |-> FALSE, ccBin |-> "", ccArgs |-> <<>>, runtimeDir |-> "", out |-> "", file |-> "",
     werr |-> FALSE, useDesi |-> FALSE, verbose |-> FALSE]

\* the assignment made by a flag with a value
setValue(a, flag, val) ==
    CASE flag \in {"--cc-bin", "--cc"} -> [a EXCEPT !.ccBin = val]
      [] flag = "--cc-arg" -> [a EXCEPT !.ccArgs = Append(@, val)]
      [] flag = "--runtime-dir" -> [a EXCEPT !.runtimeDir = val]
      [] flag = "--out" -> [a EXCEPT !.out = val]

\* the assignment made by a flag without a value
setSwitch(a, s) ==
    CASE s = "--no-cc" -> [a EXCEPT !.noCC = TRUE]
      [] s \in {"--Werror", "--werror"} -> [a EXCEPT !.werr = TRUE]
      [] s = "--use-desi-lexer" -> [a EXCEPT !.useDesi = TRUE]
      [] s = "--verbose" -> [a EXCEPT !.verbose = TRUE]

\* parseBuildArgs after `--`: the first non-flag is the file
RECURSIVE restArgs(_, _, _)
restArgs(argv, i, a) ==
    IF i <= Len(argv) /\ a.file = ""
    THEN restArgs(argv, i + 1, IF ~hasDashPrefix(argv[i]) THEN [a EXCEPT !.file = argv[i]] ELSE a)
    ELSE [ok |-> a.file # "", a |-> a]

\* parseBuildArgs: the main loop, then the rest
RECURSIVE parseArgsFrom(_, _, _)
parseArgsFrom(argv, i, a) ==
    IF i > Len(argv) THEN restArgs(argv, i, a)
    ELSE CASE argv[i] = "--" -> restArgs(argv, i + 1, a)
           [] argv[i] \in SwitchFlags -> parseArgsFrom(argv, i + 1, setSwitch(a, argv[i]))
           [] \E f \in EqForms : f[1] = argv[i] ->
                 parseArgsFrom(argv, i + 1,
                     setValue(a, (CHOOSE f \in EqForms : f[1] = argv[i])[2],
                                 (CHOOSE f \in EqForms : f[1] = argv[i])[3]))
           [] argv[i] \in ValueFlags ->
                 IF i + 1 > Len(argv) THEN [ok |-> FALSE, a |-> a]
                 ELSE parseArgsFrom(argv, i + 2, setValue(a, argv[i], argv[i + 1]))
           [] OTHER ->
                 IF ~hasDashPrefix(argv[i]) /\ a.file = ""
                 THEN parseArgsFrom(argv, i + 1, [a EXCEPT !.file = argv[i]])
                 ELSE IF hasDashPrefix(argv[i]) THEN [ok |-> FALSE, a |-> a]
                 ELSE parseArgsFrom(argv, i + 1, a)

parseBuildArgs(argv) == parseArgsFrom(argv, 1, noBuildArgs)

\* what cmdBuild returns and leaves behind
Exit(code, cWritten, built) == [exit |-> code, cWritten |-> cWritten, built |-> built]

\* `len(errs) > 0 || (a.werr && len(warns) > 0)`
errorsOnly(a, errs, warns) == errs > 0
stopsBeforeEmit(a, errs, warns) == errs > 0 \/ (a.werr /\ warns > 0)

\* (mutant) cmdBuild that does not look at the result of the C compiler
buildWithoutCCResult(a, env) ==
    IF env.perr > 0 THEN Exit(1, FALSE, FALSE)
    ELSE IF stopsBeforeEmit(a, env.errs, env.warns) THEN Exit(1, FALSE, FALSE)
    ELSE IF ~env.mkdirOK THEN Exit(1, FALSE, FALSE)
    ELSE IF ~env.writeOK THEN Exit(1, FALSE, FALSE)
    ELSE Exit(0, TRUE, ~a.noCC /\ env.ccOK)

\* cmdBuild once the arguments are parsed
buildWith(a, env) ==
    IF env.perr > 0 THEN Exit(1, FALSE, FALSE)
    ELSE IF stopsBeforeEmit(a, env.errs, env.warns) THEN Exit(1, FALSE, FALSE)
    ELSE IF ~env.mkdirOK THEN Exit(1, FALSE, FALSE)
    ELSE IF ~env.writeOK THEN Exit(1, FALSE, FALSE)
    ELSE IF ~a.noCC
    THEN IF ~env.ccOK THEN Exit(1, TRUE, FALSE) ELSE Exit(0, TRUE, TRUE)
    ELSE Exit(0, TRUE, FALSE)

cmdBuild(argv, env) ==
    With(parseBuildArgs(argv), LAMBDA pa :
        IF ~pa.ok THEN [r |-> Exit(2, FALSE, FALSE), a |-> pa.a, argsOK |-> FALSE]
        ELSE [r |-> buildWith(pa.a, env), a |-> pa.a, argsOK |-> TRUE])

BuildInit ==
    /\ \E argv \in SeqsBetween(ArgWords, 0, MaxArgs) :
       \E perr \in DiagCounts, errs \in DiagCounts, warns \in DiagCounts :
       \E mkdirOK \in BOOLEAN, writeOK \in BOOLEAN, ccOK \in BOOLEAN :
          bld = [done |-> FALSE, argv |-> argv,
                 env |-> [perr |-> perr, errs |-> errs, warns |-> warns,
                          mkdirOK |-> mkdirOK, writeOK |-> writeOK, ccOK |-> ccOK]]
    /\ lx = Idle /\ out = Idle /\ fs = Idle /\ res = Idle /\ prog = Idle /\ chk = Idle

\* one run of `desic build argv`
CmdBuild ==
    /\ ~bld.done
    /\ \E b \in {cmdBuild(bld.argv, bld.env)} :
          bld' = [done |-> TRUE, argv |-> bld.argv, env |-> bld.env,
                  a |-> b.a, argsOK |-> b.argsOK,
                  exit |-> b.r.exit, cWritten |-> b.r.cWritten, built |-> b.r.built]
    /\ UNCHANGED <<lx, out, fs, res, prog, chk>>

SpecBuild == BuildInit /\ [][CmdBuild]_vars

(***************************************************************************)
(*                    CHECKER AND BUILD: PROPERTIES                        *)
(***************************************************************************)

\* the errors reported by the statement or head checked last
NewErrors == SubSeq(chk.c.errors, Len(prog.pre.errors) + 1, Len(chk.c.errors))
InSeq(x, s) == \E i \in 1..Len(s) : s[i].msg = x.msg /\ s[i] = x
HasWarning(code) == \E i \in 1..Len(chk.warns) : chk.warns[i].Code = code

\* the function checked returns a value
NonVoid == mapTextType(prog.decls[1].Ret) # "void"
\* some execution path through the body reaches its end without a return
MayFallThrough == prog.paths[1].cc

\* C7: for a function with a non-void return kind, W0006 is emitted exactly
\* when some execution path through the body reaches the end of the function
\* without executing a return; when every path returns it is not emitted.
C7_W0006IffSomePathFallsThrough ==
    (chk.phase = "done" /\ NonVoid) => (HasWarning("W0006") <=> MayFallThrough)

\* the C file is written exactly when this holds
NoStageError == bld.env.perr = 0 /\ bld.env.errs = 0

\* C8 (as stated): the build command writes the C file if and only if
\* neither the resolver nor the checker reported an error; warnings by
\* themselves never prevent it.
C8_CFileIffNoError ==
    (bld.done /\ bld.argsOK /\ bld.env.mkdirOK /\ bld.env.writeOK)
        => (bld.cWritten <=> NoStageError)

\* C8 (amended): with arguments that parse and an output directory and file
\* that can be written, the C file is written if and only if neither the
\* resolver nor the checker reported an error and, when --Werror is given,
\* the checker reported no warning; without --Werror warnings never prevent
\* it.  With unusable arguments or an unwritable output nothing is written.
C8_CFileIffNoErrorAndNoWerrorWarning ==
    bld.done =>
        (bld.cWritten <=>
            /\ bld.argsOK /\ bld.env.mkdirOK /\ bld.env.writeOK
            /\ NoStageError
            /\ ~(bld.a.werr /\ bld.env.warns > 0))

\* C8 witness: --Werror, a warning and no error: no C file; the exit code is 1
C8_Witness ==
    /\ bld.done /\ bld.argsOK /\ bld.env.mkdirOK /\ bld.env.writeOK
    /\ NoStageError /\ bld.a.werr /\ bld.env.warns > 0
    /\ ~bld.cWritten /\ bld.exit = 1

\* the statement checked last is an assignment
AssignChecked == chk.phase = "body" /\ prog.stmt.s = "AssignStmt"
ImmutableErr(name) == [msg |-> "cannot assign to immutable variable %q", name |-> name]
\* before the assignment, target i resolves to a binding that is not mutable
ImmutableTarget(i) ==
    /\ lookup(prog.pre, prog.stmt.Names[i]) # 0
    /\ ~prog.pre.heap[lookup(prog.pre, prog.stmt.Names[i])].mutable
\* the binding target i resolves to keeps its kind
KindUnchanged(i) ==
    chk.c.heap[lookup(prog.pre, prog.stmt.Names[i])].kind
        = prog.pre.heap[lookup(prog.pre, prog.stmt.Names[i])].kind
\* target i has a right-hand expression at its position
Paired(i) == i <= Len(prog.stmt.Exprs)

\* C9 (as stated): any assignment whose target name resolves to a binding
\* that is not mutable makes the checker report 'cannot assign to immutable
\* variable' for that name, and leaves that binding's kind unchanged.
C9_ImmutableTargetReported ==
    AssignChecked =>
        \A i \in 1..Len(prog.stmt.Names) :
            ImmutableTarget(i) =>
                InSeq(ImmutableErr(prog.stmt.Names[i]), NewErrors) /\ KindUnchanged(i)

\* C9 (amended): an assignment target that has a right-hand expression at its
\* position and resolves to a binding that is not mutable makes the checker
\* report 'cannot assign to immutable variable' for that name; the kind of a
\* binding that is not mutable is left unchanged by every assignment.
C9_PairedImmutableTargetReported ==
    AssignChecked =>
        \A i \in 1..Len(prog.stmt.Names) :
            ImmutableTarget(i) =>
                /\ KindUnchanged(i)
                /\ Paired(i) => InSeq(ImmutableErr(prog.stmt.Names[i]), NewErrors)

\* C9 witness: a parallel assignment whose second target is immutable and
\* has a right-hand expression; the error names it
C9_Witness ==
    /\ AssignChecked /\ Len(prog.stmt.Names) = 2 /\ Len(prog.stmt.Exprs) = 2
    /\ ImmutableTarget(2)
    /\ InSeq(ImmutableErr(prog.stmt.Names[2]), NewErrors)

\* The shape of a binding line, read off its tokens: [let [mut]] names sep
\* values NEWLINE, names and values separated by commas; sep is at s.
Alternates(ch, a, b, kinds) ==
    /\ a <= b /\ (b - a) % 2 = 0
    /\ \A i \in a..b : IF (i - a) % 2 = 0 THEN ch[i].Kind \in kinds ELSE ch[i].Kind = "TokComma"
NamesStart(ch) ==
    IF ch[1].Kind # "TokLet" THEN 1 ELSE IF Len(ch) > 1 /\ ch[2].Kind = "TokMut" THEN 3 ELSE 2
ValueKinds == {"TokInt", "TokStr", "TokTrue", "TokFalse", "TokIdent"}
IsBindingAt(ch, s) ==
    /\ ch[s].Kind = (IF ch[1].Kind = "TokLet" THEN "TokEq" ELSE "TokAssign")
    /\ Alternates(ch, NamesStart(ch), s - 1, {"TokIdent"})
    /\ Alternates(ch, s + 1, Len(ch) - 1, ValueKinds)
    /\ ch[Len(ch)].Kind = "TokNewline"
IsBinding(ch) == ch # <<>> /\ \E s \in 1..Len(ch) : IsBindingAt(ch, s)
SepAt(ch) == CHOOSE s \in 1..Len(ch) : IsBindingAt(ch, s)
LhsCount(ch) == (SepAt(ch) - NamesStart(ch)) \div 2 + 1
RhsCount(ch) == (Len(ch) - 1 - SepAt(ch)) \div 2 + 1
Context(ch) == IF ch[1].Kind = "TokLet" THEN "let" ELSE "assignment"
ArityErr(ch) ==
    [msg |-> "%s: %s in %s: names=%d, values=%d", id |-> "DTE0002",
     title |-> "arity mismatch in grouped binding", context |-> Context(ch),
     names |-> LhsCount(ch), values |-> RhsCount(ch)]
IsArityErr(err) == err.msg = "%s: %s in %s: names=%d, values=%d"

\* C10: the parser accepts let and := statements whose two sides have
\* different numbers of elements, and for every such statement the checker
\* reports an arity-mismatch error naming both counts; a statement whose two
\* sides have equal counts never produces that error.
C10_ArityMismatchReportedByChecker ==
    (chk.phase \in {"body", "parse_error"} /\ IsBinding(prog.chunk)) =>
        /\ chk.phase = "body"
        /\ prog.stmt.s = (IF prog.chunk[1].Kind = "TokLet" THEN "LetStmt" ELSE "AssignStmt")
        /\ IF LhsCount(prog.chunk) # RhsCount(prog.chunk)
           THEN InSeq(ArityErr(prog.chunk), NewErrors)
           ELSE \A i \in 1..Len(NewErrors) : ~IsArityErr(NewErrors[i])

\* C10 witness: an assignment of two names from one value, checked: the
\* error carries names=2, values=1
C10_Witness ==
    /\ chk.phase = "body" /\ IsBinding(prog.chunk) /\ prog.stmt.s = "AssignStmt"
    /\ LhsCount(prog.chunk) = 2 /\ RhsCount(prog.chunk) = 1
    /\ InSeq(ArityErr(prog.chunk), NewErrors)

(***************************************************************************)
(*                     THE CHECKER ON WHOLE FILES                          *)
(* CheckFile applied to a parsed file.  The statements on one line are the *)
(* parser's results for their tokens; if and while statements are built    *)
(* from them as parseIfStmt and parseWhileStmt build them.                 *)
(***************************************************************************)

\* Bound: statements in a function body, those of nested blocks included.
MaxBodySize == 3
\* Bound: functions in a file.
MaxFuncs == 2

tDefer == Tok("TokDefer", <<"d", "e", "f", "e", "r">>)
tLParen == Tok("TokLParen", <<"(">>)
tRParen == Tok("TokRParen", <<")">>)
tLBrack == Tok("TokLBrack", <<"[">>)
tRBrack == Tok("TokRBrack", <<"]">>)
idF == Tok("TokIdent", <<"f">>)

\* let x = 1 / x / return p / return / defer f(x, 1) / defer x / x[p]
BodyLines ==
    {<<tLet, idX, tEq, int1, tNewline>>,
     <<idX, tNewline>>,
     <<tReturn, idP, tNewline>>,
     <<tReturn, tNewline>>,
     <<tDefer, idF, tLParen, idX, tComma, int1, tRParen, tNewline>>,
     <<tDefer, idX, tNewline>>,
     <<idX, tLBrack, idP, tRBrack, tNewline>>}

\* the statement parseStmt makes of a line
StmtOf(line) == parseStmt(NewFromSource(line)).v
LineStmts == {StmtOf(line) : line \in BodyLines}
\* the condition `p`
CondP == parseExpr(NewFromSource(<<idP>>)).v

\* &ast.IfStmt{...}, ast.ElseIf{...}, &ast.WhileStmt{...}; a nil Else is <<>>
IfStmt(cond, then, elifs, else) ==
    [s |-> "IfStmt", Cond |-> cond, Then |-> then, Elifs |-> elifs, Else |-> else]
ElseIf(cond, body) == [Cond |-> cond, Body |-> body]
WhileStmt(cond, body) == [s |-> "WhileStmt", Cond |-> cond, Body |-> body]

\* the bodies of exactly n statements, and the statements that count for k
RECURSIVE BodiesOfSize(_), StmtsOfSize(_)
BodiesOfSize(n) ==
    IF n = 0 THEN {<<>>}
    ELSE UNION {{<<st>> \o rest : st \in StmtsOfSize(k), rest \in BodiesOfSize(n - k)} : k \in 1..n}
StmtsOfSize(k) ==
    IF k = 1 THEN LineStmts
    ELSE {WhileStmt(CondP, b) : b \in BodiesOfSize(k - 1)}
         \cup UNION {UNION {
                {IfStmt(CondP, th, <<>>, el) :
                    th \in BodiesOfSize(a), el \in BodiesOfSize(k - 1 - a)}
                \cup {IfStmt(CondP, th, <<ElseIf(CondP, eb)>>, el) :
                    th \in BodiesOfSize(a), eb \in BodiesOfSize(b),
                    el \in BodiesOfSize(k - 1 - a - b)}
              : b \in 1..(k - 1 - a)} : a \in 1..(k - 1)}
         \cup {IfStmt(CondP, th, <<>>, <<>>) : th \in BodiesOfSize(k - 1)}
Bodies == UNION {BodiesOfSize(n) : n \in 1..MaxBodySize}

\* def name(p: int, _q: int) -> ret: body
FuncDecl(name, ret, body) ==
    [Name |-> name,
     Params |-> <<[Name |-> <<"p">>, Type |-> <<"i", "n", "t">>],
                  [Name |-> <<"_", "q">>, Type |-> <<"i", "n", "t">>]>>,
     Ret |-> ret, Body |-> body]
RetTypes == {<<"i", "n", "t">>, <<>>}
\* files of one function with any body, and of several functions whose
\* bodies are `return` or `return p`
SingleFiles == {<<FuncDecl(<<"f">>, r, b)>> : r \in RetTypes, b \in Bodies}
SmallDecls ==
    {FuncDecl(n, r, <<StmtOf(line)>>) :
        n \in {<<"f">>, <<"g">>}, r \in RetTypes,
        line \in {<<tReturn, tNewline>>, <<tReturn, idP, tNewline>>}}
MultiFiles == SeqsBetween(SmallDecls, 2, MaxFuncs)

RECURSIVE checkAnyStmt(_, _), checkBlock(_, _, _), checkElifs(_, _, _)

\* for _, s := range stmts { c.checkStmt(s) }
checkBlock(c, stmts, i) ==
    IF i > Len(stmts) THEN c ELSE checkBlock(checkAnyStmt(c, stmts[i]), stmts, i + 1)

\* c.withBlock(func() { ... })
withBlock(c, stmts) == withBlockLeave(checkBlock(withBlockEnter(c), stmts, 1))

\* checkStmt, case *ast.IfStmt: the elifs
checkElifs(c, elifs, i) ==
    IF i > Len(elifs) THEN c
    ELSE checkElifs(withBlock(checkCond(c, "elif", elifs[i].Cond), elifs[i].Body), elifs, i + 1)

\* checkStmt, case *ast.IfStmt: the else
checkElse(c, st) == IF st.Else # <<>> THEN withBlock(c, st.Else) ELSE c

\* checkStmt, any statement
checkAnyStmt(c, st) ==
    CASE st.s = "IfStmt" ->
            checkElse(checkElifs(withBlock(checkCond(unreachableCheck(c), "if", st.Cond), st.Then),
                                 st.Elifs, 1), st)
      [] st.s = "WhileStmt" ->
            withBlock(checkCond(unreachableCheck(c), "while", st.Cond), st.Body)
      [] OTHER -> checkStmt(c, st)

checkFunc(info, fn) == checkFuncEnd(checkBlock(checkFuncBegin(info, fn), fn.Body, 1), fn)

\* CheckFile, pass 2: check bodies
RECURSIVE checkBodies(_, _, _, _)
checkBodies(info, decls, i, st) ==
    IF i > Len(decls) THEN st
    ELSE With(checkFunc(info, decls[i]), LAMBDA c :
            checkBodies(info, decls, i + 1,
                [st EXCEPT !.errs = @ \o c.errors, !.warns = @ \o c.warnings,
                           !.fns = Append(@, c)]))

\* CheckFile: info, errs, warns, and beside them the checker of each function
CheckFile(f) ==
    With(collectSigs(f.Decls, 1, [info |-> EmptyMap, errs |-> <<>>]), LAMBDA st :
        checkBodies(st.info, f.Decls, 1,
                    [info |-> st.info, errs |-> st.errs, warns |-> <<>>, fns |-> <<>>]))

FileInit ==
    /\ \E ds \in SingleFiles \cup MultiFiles : prog = [Decls |-> ds]
    /\ chk = [done |-> FALSE]
    /\ lx = Idle /\ out = Idle /\ fs = Idle /\ res = Idle /\ bld = Idle

\* check.CheckFile(f)
CheckFileCall ==
    /\ ~chk.done
    /\ \E r \in {CheckFile(prog)} :
          chk' = [done |-> TRUE, info |-> r.info, errs |-> r.errs, warns |-> r.warns,
                  fns |-> r.fns]
    /\ UNCHANGED <<prog, lx, out, fs, res, bld>>

SpecCheckFile == FileInit /\ [][CheckFileCall]_vars

\* how many warnings of ws carry the code
CountCode(ws, code) == Cardinality({i \in 1..Len(ws) : ws[i].Code = code})
\* how many errors of es carry the message
CountMsg(es, msg) == Cardinality({i \in 1..Len(es) : es[i].msg = msg})

\* The statements of a body, those of nested blocks included, that come
\* after a return statement of their own block.
RECURSIVE AfterReturnIn(_, _), AfterReturnUnder(_), AfterReturnInElifs(_, _)
AfterReturnIn(body, i) ==
    IF i > Len(body) THEN 0
    ELSE (IF \E j \in 1..(i - 1) : body[j].s = "ReturnStmt" THEN 1 ELSE 0)
         + AfterReturnUnder(body[i]) + AfterReturnIn(body, i + 1)
AfterReturnInElifs(elifs, i) ==
    IF i > Len(elifs) THEN 0
    ELSE AfterReturnIn(elifs[i].Body, 1) + AfterReturnInElifs(elifs, i + 1)
AfterReturnUnder(st) ==
    CASE st.s = "IfStmt" ->
            AfterReturnIn(st.Then, 1) + AfterReturnInElifs(st.Elifs, 1) + AfterReturnIn(st.Else, 1)
      [] st.s = "WhileStmt" -> AfterReturnIn(st.Body, 1)
      [] OTHER -> 0

\* C11: within a block, every statement that comes after a return statement
\* of that same block produces exactly one W0004, and a statement not
\* preceded by a return in its own block produces none: the W0004 warnings
\* of a function are as many as its statements after a return of their block.
C11_OneW0004PerStatementAfterReturn ==
    chk.done =>
        \A i \in 1..Len(prog.Decls) :
            CountCode(chk.fns[i].warnings, "W0004") = AfterReturnIn(prog.Decls[i].Body, 1)

\* C11 witness: a body that is `if p:` over a return followed by one more
\* statement: one W0004, for the statement after the return
C11_Witness ==
    /\ chk.done /\ Len(prog.Decls) = 1 /\ Len(prog.Decls[1].Body) = 1
    /\ prog.Decls[1].Body[1].s = "IfStmt"
    /\ Len(prog.Decls[1].Body[1].Then) = 2
    /\ prog.Decls[1].Body[1].Then[1].s = "ReturnStmt"
    /\ CountCode(chk.fns[1].warnings, "W0004") = 1

\* The names used as operands in an expression: identifiers standing as
\* operands, call arguments, indexed or indexing values, field bases.
RECURSIVE IdentsIn(_)
IdentsIn(e) ==
    CASE e.e = "IdentExpr" -> {e.Name}
      [] e.e = "UnaryExpr" -> IdentsIn(e.X)
      [] e.e = "BinaryExpr" -> IdentsIn(e.Left) \cup IdentsIn(e.Right)
      [] e.e = "FieldExpr" -> IdentsIn(e.X)
      [] e.e = "IndexExpr" -> IdentsIn(e.Seq) \cup IdentsIn(e.Index)
      [] e.e = "CallExpr" -> UNION {IdentsIn(e.Args[i]) : i \in 1..Len(e.Args)}
      [] OTHER -> {}

\* the names read by a statement, and by the statements of a body from i on
RECURSIVE ReadsOfStmt(_), ReadsFrom(_, _)
ReadsFrom(body, i) == UNION {ReadsOfStmt(body[j]) : j \in i..Len(body)}
ReadsOfStmt(st) ==
    CASE st.s = "LetStmt" -> UNION {IdentsIn(st.Values[i]) : i \in 1..Len(st.Values)}
      [] st.s = "AssignStmt" -> UNION {IdentsIn(st.Exprs[i]) : i \in 1..Len(st.Exprs)}
      [] st.s = "ReturnStmt" -> IdentsIn(st.Expr)
      [] st.s = "ExprStmt" -> IdentsIn(st.Expr)
      [] st.s = "DeferStmt" -> IdentsIn(st.Call)
      [] st.s = "IfStmt" ->
            IdentsIn(st.Cond) \cup ReadsFrom(st.Then, 1) \cup ReadsFrom(st.Else, 1)
            \cup UNION {IdentsIn(st.Elifs[i].Cond) \cup ReadsFrom(st.Elifs[i].Body, 1) :
                            i \in 1..Len(st.Elifs)}
      [] st.s = "WhileStmt" -> IdentsIn(st.Cond) \cup ReadsFrom(st.Body, 1)
      [] OTHER -> {}

\* the names a statement declares
LetNames(st) == IF st.s = "LetStmt" THEN {st.Binds[i].Name : i \in 1..Len(st.Binds)} ELSE {}

\* how many let statements of a body, nested blocks included, declare n
RECURSIVE LetCountIn(_, _, _), LetCountUnder(_, _)
LetCountIn(n, body, i) ==
    IF i > Len(body) THEN 0
    ELSE (IF n \in LetNames(body[i]) THEN 1 ELSE 0) + LetCountUnder(n, body[i])
         + LetCountIn(n, body, i + 1)
LetCountUnder(n, st) ==
    CASE st.s = "IfStmt" ->
            LetCountIn(n, st.Then, 1) + LetCountIn(n, st.Else, 1)
            + (IF st.Elifs = <<>> THEN 0 ELSE LetCountIn(n, st.Elifs[1].Body, 1))
      [] st.s = "WhileStmt" -> LetCountIn(n, st.Body, 1)
      [] OTHER -> 0

\* the names declared by a let of the body, nested blocks included, and not
\* read by any later statement of the declaring block
RECURSIVE UnreadLets(_, _), UnreadLetsUnder(_)
UnreadLets(body, i) ==
    IF i > Len(body) THEN {}
    ELSE (LetNames(body[i]) \ ReadsFrom(body, i + 1))
         \cup UnreadLetsUnder(body[i]) \cup UnreadLets(body, i + 1)
UnreadLetsUnder(st) ==
    CASE st.s = "IfStmt" ->
            UnreadLets(st.Then, 1) \cup UnreadLets(st.Else, 1)
            \cup UNION {UnreadLets(st.Elifs[i].Body, 1) : i \in 1..Len(st.Elifs)}
      [] st.s = "WhileStmt" -> UnreadLets(st.Body, 1)
      [] OTHER -> {}

ParamNames(fn) == {fn.Params[i].Name : i \in 1..Len(fn.Params)}
AllLetNames(fn) == {n \in {<<"x">>, <<"y">>, <<"z">>} : LetCountIn(n, fn.Body, 1) > 0}
\* n is bound once in fn: by one parameter or by one let
BoundOnce(n, fn) ==
    \/ n \in ParamNames(fn) /\ LetCountIn(n, fn.Body, 1) = 0
          /\ Cardinality({i \in 1..Len(fn.Params) : fn.Params[i].Name = n}) = 1
    \/ n \notin ParamNames(fn) /\ LetCountIn(n, fn.Body, 1) = 1
\* the W0001 warnings that name n
CountUnused(ws, n) ==
    Cardinality({i \in 1..Len(ws) : ws[i].Code = "W0001" /\ ws[i].Msg.name = n})
\* n, bound once in fn, is never read in fn
NeverRead(n, fn) ==
    IF n \in ParamNames(fn) THEN n \notin ReadsFrom(fn.Body, 1)
    ELSE n \in UnreadLets(fn.Body, 1)

\* C12: for each function the checker emits exactly one W0001 for every
\* parameter and declared local whose name does not start with `_` and which
\* is never read (never an operand, call argument, condition or returned
\* value), and none for a binding whose name starts with `_` or which is
\* read at least once.
C12_OneW0001PerUnreadBinding ==
    chk.done =>
        \A i \in 1..Len(prog.Decls) :
            \A n \in ParamNames(prog.Decls[i]) \cup AllLetNames(prog.Decls[i]) :
                BoundOnce(n, prog.Decls[i]) =>
                    CountUnused(chk.fns[i].warnings, n)
                        = (IF n[1] # "_" /\ NeverRead(n, prog.Decls[i]) THEN 1 ELSE 0)

\* The defer statements of a body, nested blocks included (the body of the
\* function is at depth 1), that are nested in a block (what = "nested") or
\* whose operand is not a call (what = "noncall").
DeferIs(st, d, what) ==
    /\ st.s = "DeferStmt"
    /\ IF what = "nested" THEN d > 1 ELSE st.Call.e # "CallExpr"
RECURSIVE DefersIn(_, _, _, _), DefersUnder(_, _, _)
DefersIn(body, i, d, what) ==
    IF i > Len(body) THEN 0
    ELSE (IF DeferIs(body[i], d, what) THEN 1 ELSE 0)
         + DefersUnder(body[i], d, what) + DefersIn(body, i + 1, d, what)
DefersUnder(st, d, what) ==
    CASE st.s = "IfStmt" ->
            DefersIn(st.Then, 1, d + 1, what) + DefersIn(st.Else, 1, d + 1, what)
            + (IF st.Elifs = <<>> THEN 0 ELSE DefersIn(st.Elifs[1].Body, 1, d + 1, what))
      [] st.s = "WhileStmt" -> DefersIn(st.Body, 1, d + 1, what)
      [] OTHER -> 0

\* C13: a defer passes the checker without a defer-specific error only when
\* it is a direct statement of the function body and its operand is a call:
\* every defer nested in an if, elif, else or while body produces the error
\* 'defer is only allowed at function top-level', every defer whose operand
\* is not a call produces 'defer expects a call expression', and no other
\* defer produces either.
C13_DeferTopLevelCallOnly ==
    chk.done =>
        \A i \in 1..Len(prog.Decls) :
            /\ CountMsg(chk.fns[i].errors, "defer is only allowed at function top-level in Stage-0")
                  = DefersIn(prog.Decls[i].Body, 1, 1, "nested")
            /\ CountMsg(chk.fns[i].errors, "defer expects a call expression")
                  = DefersIn(prog.Decls[i].Body, 1, 1, "noncall")

\* C13 witness: a defer of a call inside a while body, reported as not at
\* top level
C13_Witness ==
    /\ chk.done /\ Len(prog.Decls) = 1 /\ Len(prog.Decls[1].Body) = 1
    /\ prog.Decls[1].Body[1].s = "WhileStmt"
    /\ prog.Decls[1].Body[1].Body[1].s = "DeferStmt"
    /\ prog.Decls[1].Body[1].Body[1].Call.e = "CallExpr"
    /\ CountMsg(chk.fns[1].errors, "defer is only allowed at function top-level in Stage-0") = 1
    /\ CountMsg(chk.fns[1].errors, "defer expects a call expression") = 0

(***************************************************************************)
(*                     THE LEXER ON SINGLE WORDS                           *)
(***************************************************************************)

\* the reserved words of the token model, each with its own token kind
KeywordTokens ==
    {<<<<"l", "e", "t">>, "TokLet">>, <<<<"m", "u", "t">>, "TokMut">>,
     <<<<"d", "e", "f">>, "TokDef">>, <<<<"r", "e", "t", "u", "r", "n">>, "TokReturn">>,
     <<<<"i", "f">>, "TokIf">>, <<<<"e", "l", "i", "f">>, "TokElif">>,
     <<<<"e", "l", "s", "e">>, "TokElse">>, <<<<"w", "h", "i", "l", "e">>, "TokWhile">>,
     <<<<"f", "o", "r">>, "TokFor">>, <<<<"i", "n">>, "TokIn">>,
     <<<<"m", "a", "t", "c", "h">>, "TokMatch">>,
     <<<<"s", "t", "r", "u", "c", "t">>, "TokStruct">>, <<<<"e", "n", "u", "m">>, "TokEnum">>,
     <<<<"p", "a", "c", "k", "a", "g", "e">>, "TokPackage">>,
     <<<<"i", "m", "p", "o", "r", "t">>, "TokImport">>, <<<<"a", "s">>, "TokAs">>,
     <<<<"t", "r", "u", "e">>, "TokTrue">>, <<<<"f", "a", "l", "s", "e">>, "TokFalse">>,
     <<<<"a", "n", "d">>, "TokAnd">>, <<<<"o", "r">>, "TokOr">>, <<<<"n", "o", "t">>, "TokNot">>,
     <<<<"d", "e", "f", "e", "r">>, "TokDefer">>}
ReservedWords == {kw[1] : kw \in KeywordTokens}
\* identifiers that are not reserved
PlainWords == {<<"x">>, <<"l", "e", "t", "s">>, <<"d", "e", "f", "e", "r", "s">>, <<"i", "f", "f">>}

\* lexer.New(src) for a word alone on its line, indented or not, with or
\* without the end of line
WordsInit ==
    /\ \E w \in ReservedWords \cup PlainWords :
       \E pre \in {<<>>, <<" ">>} : \E post \in {<<>>, <<"\n">>} :
          lx = New(pre \o w \o post)
    /\ out = <<>>
    /\ fs = Idle /\ res = Idle /\ prog = Idle /\ chk = Idle /\ bld = Idle

SpecLexWords == WordsInit /\ [][LexNext]_vars

\* C14: every identifier-shaped lexeme that is exactly one of the reserved
\* words (let, mut, def, return, if, elif, else, while, for, in, match,
\* struct, enum, package, import, as, true, false, and, or, not, defer) is
\* returned as that word's own keyword token kind and never as IDENT.
C14_ReservedWordsAreKeywords ==
    \A k \in 1..Len(out) : \A kw \in KeywordTokens :
        out[k].Lex = kw[1] => out[k].Kind = kw[2] /\ out[k].Kind # "TokIdent"

\* the declarations of the file that carry the name n, by position
DeclsNamed(n) == {i \in 1..Len(prog.Decls) : prog.Decls[i].Name = n}
\* the first declaration with the name of declaration i
FirstDecl(i) ==
    prog.Decls[CHOOSE j \in DeclsNamed(prog.Decls[i].Name) :
                   \A k \in DeclsNamed(prog.Decls[i].Name) : j <= k]
\* the kind a return type is written as: `int`, or nothing for void
WrittenKind(text) == IF text = <<"i", "n", "t">> THEN "int" ELSE "void"
DuplicateErrors(n) ==
    Cardinality({i \in 1..Len(chk.errs) :
        chk.errs[i].msg = "duplicate function %q" /\ chk.errs[i].name = n})
\* the body of declaration i is `return`, or is `return p`
OnlyReturn(i) == Len(prog.Decls[i].Body) = 1 /\ prog.Decls[i].Body[1].s = "ReturnStmt"
BareReturn(i) == OnlyReturn(i) /\ prog.Decls[i].Body[1].Expr = NoNode
ValueReturn(i) == OnlyReturn(i) /\ prog.Decls[i].Body[1].Expr # NoNode

\* C15: when functions of the file share a name, the checker reports one
\* 'duplicate function' error for each declaration after the first, keeps
\* only the first declaration's signature, and still checks the body of
\* every same-named function, against that first signature.
C15_DuplicatesCheckedUnderFirstSignature ==
    chk.done =>
        /\ Len(chk.fns) = Len(prog.Decls)
        /\ \A i \in 1..Len(prog.Decls) :
              /\ DuplicateErrors(prog.Decls[i].Name) = Cardinality(DeclsNamed(prog.Decls[i].Name)) - 1
              /\ chk.info[prog.Decls[i].Name].Ret = WrittenKind(FirstDecl(i).Ret)
              /\ BareReturn(i) =>
                    (CountMsg(chk.fns[i].errors, "missing return value; function returns %s") = 1
                        <=> WrittenKind(FirstDecl(i).Ret) # "void")
              /\ ValueReturn(i) =>
                    (CountMsg(chk.fns[i].errors, "return value in function returning void") = 1
                        <=> WrittenKind(FirstDecl(i).Ret) = "void")

\* C15 witness: two functions of one name, the first returning int, the
\* second written without a return type and ending in a bare return: one
\* duplicate error, and the second body is told it returns int
C15_Witness ==
    /\ chk.done /\ Len(prog.Decls) = 2
    /\ prog.Decls[1].Name = prog.Decls[2].Name
    /\ prog.Decls[1].Ret = <<"i", "n", "t">> /\ prog.Decls[2].Ret = <<>>
    /\ BareReturn(2)
    /\ DuplicateErrors(prog.Decls[2].Name) = 1
    /\ CountMsg(chk.fns[2].errors, "missing return value; function returns %s") = 1

(***************************************************************************)
(*                         KIND UNIFICATION                                *)
(* unifyKinds as the checker applies it to a binding: the declared kind    *)
(* with the kind of the initial value, then the kind so found with the     *)
(* kind of a value assigned later.  Each application is also made with its *)
(* arguments exchanged.                                                    *)
(***************************************************************************)

Kinds == {"unknown", "int", "str", "bool", "void"}

UnifyInit ==
    /\ \E a \in Kinds, b \in Kinds, c \in Kinds :
          chk = [step |-> 0, a |-> a, b |-> b, c |-> c]
    /\ lx = Idle /\ out = Idle /\ fs = Idle /\ res = Idle /\ prog = Idle /\ bld = Idle

\* unifyKinds(a, b) and unifyKinds(b, a)
UnifyDeclared ==
    /\ chk.step = 0
    /\ chk' = [step |-> 1, a |-> chk.a, b |-> chk.b, c |-> chk.c,
               ab |-> unifyKinds(chk.a, chk.b), ba |-> unifyKinds(chk.b, chk.a)]
    /\ UNCHANGED <<lx, out, fs, res, prog, bld>>

\* unifyKinds(k, c) and unifyKinds(c, k) for the kind k found before
UnifyAssigned ==
    /\ chk.step = 1
    /\ chk' = [step |-> 2, a |-> chk.a, b |-> chk.b, c |-> chk.c, ab |-> chk.ab, ba |-> chk.ba,
               kc |-> unifyKinds(chk.ab.k, chk.c), ck |-> unifyKinds(chk.c, chk.ab.k)]
    /\ UNCHANGED <<lx, out, fs, res, prog, bld>>

SpecUnify == UnifyInit /\ [][UnifyDeclared \/ UnifyAssigned]_vars

\* what the unification of (x, y) is to be: it succeeds exactly when one
\* side is unknown, or the two are equal, or they are int and bool; it then
\* yields the other kind, the common kind, or int
Unifiable(x, y) == x = "unknown" \/ y = "unknown" \/ x = y \/ {x, y} = {"int", "bool"}
Unified(x, y) ==
    IF x = "unknown" THEN y ELSE IF y = "unknown" THEN x
    ELSE IF {x, y} = {"int", "bool"} THEN "int" ELSE x
AsClaimed(x, y, r, s) ==
    /\ r.ok <=> Unifiable(x, y)
    /\ r.ok => r.k = Unified(x, y)
    /\ s.ok = r.ok /\ s.k = r.k

\* C16: unification of (a, b) succeeds exactly when a or b is unknown, or a
\* equals b, or the pair is int and bool in either order; on success it
\* yields the other kind when one side is unknown, int for the int/bool
\* pair and the common kind otherwise; success and result are the same for
\* (b, a) as for (a, b).
C16_UnifyKindsTable ==
    /\ chk.step >= 1 => AsClaimed(chk.a, chk.b, chk.ab, chk.ba)
    /\ chk.step >= 2 => AsClaimed(chk.ab.k, chk.c, chk.kc, chk.ck)

\* C16 witness: bool with int gives int, and so does int with bool
C16_Witness ==
    /\ chk.step >= 1 /\ chk.a = "bool" /\ chk.b = "int"
    /\ chk.ab = [k |-> "int", ok |-> TRUE] /\ chk.ba = [k |-> "int", ok |-> TRUE]

(***************************************************************************)
(*                     BLANK AND COMMENT-ONLY LINES                        *)
(***************************************************************************)

\* the line (1-based) on which the i-th character of src lies
LineNo(src, i) == 1 + Cardinality({j \in 1..(i - 1) : src[j] = "\n"})
\* the positions of the characters of line n, its newline excluded
LineChars(src, n) == {i \in 1..Len(src) : LineNo(src, i) = n /\ src[i] # "\n"}
NewlineCount(src) == Cardinality({j \in 1..Len(src) : src[j] = "\n"})
\* line n is a line of src: it ends with a newline, or it is the last one
\* and has at least one character
IsLine(src, n) ==
    \/ n \in 1..NewlineCount(src)
    \/ n = NewlineCount(src) + 1 /\ LineChars(src, n) # {}
\* line n is blank, or holds only whitespace followed by a # comment
BlankOrComment(src, n) ==
    /\ IsLine(src, n)
    /\ \A i \in LineChars(src, n) :
          \/ src[i] \in {" ", "\t"}
          \/ \E j \in LineChars(src, n) :
                /\ j <= i /\ src[j] = "#"
                /\ \A m \in LineChars(src, n) : m < j => src[m] \in {" ", "\t"}

\* C17: a line that is blank or holds only whitespace followed by a #
\* comment produces no NEWLINE and no INDENT token, wherever it occurs in
\* the source, the last line of the input included (and no DEDENT when it
\* is not the last line, where the DEDENTs of the end of input are placed).
C17_BlankLinesProduceNoLayoutTokens ==
    \A k \in 1..Len(out) :
       BlankOrComment(lx.src, out[k].Line) =>
          /\ out[k].Kind \notin {"TokNewline", "TokIndent"}
          /\ out[k].Kind = "TokDedent" => out[k].Line = NewlineCount(lx.src) + 1

\* the same for the lines that end with a newline only
TerminatedBlankLinesSkipped ==
    \A k \in 1..Len(out) :
       (BlankOrComment(lx.src, out[k].Line) /\ out[k].Line <= NewlineCount(lx.src)) =>
          out[k].Kind \notin {"TokNewline", "TokIndent", "TokDedent"}

(***************************************************************************)
(*            THE LEXER ON TEXT WITH QUOTES AND CARRIAGE RETURNS           *)
(***************************************************************************)

MaxTextLen == 5

TextAlphabet == {"a", " ", "\r", "\n", "\""}

\* the state after lexer.New(src), for every text within the bound
TextInit ==
    /\ \E src \in SeqsBetween(TextAlphabet, 0, MaxTextLen) : lx = New(src)
    /\ out = <<>>
    /\ fs = Idle /\ res = Idle /\ prog = Idle /\ chk = Idle /\ bld = Idle

SpecLexText == TextInit /\ [][LexNext]_vars

\* the index in src of the character at (line, col), 0 when there is none
ColOf(src, i) == i - Cardinality({j \in 1..(i - 1) : LineNo(src, j) < LineNo(src, i)})
IndexAt(src, line, col) ==
    IF \E i \in 1..Len(src) : LineNo(src, i) = line /\ ColOf(src, i) = col
    THEN CHOOSE i \in 1..Len(src) : LineNo(src, i) = line /\ ColOf(src, i) = col
    ELSE 0

LayoutKinds == {"TokNewline", "TokIndent", "TokDedent", "TokEOF"}

\* token t starts at a double quote of src
OpensString(src, t) ==
    /\ t.Kind \notin LayoutKinds
    /\ IndexAt(src, t.Line, t.Col) # 0
    /\ src[IndexAt(src, t.Line, t.Col)] = "\""

\* the literal opened at index i is not closed before the end of its line
\* or the end of the input (the texts hold no backslash)
Unclosed(src, i) ==
    ~ \E j \in (i + 1)..Len(src) :
         /\ src[j] = "\""
         /\ \A m \in (i + 1)..(j - 1) : src[m] # "\n"

\* C18: when a string literal is not closed before the end of its line or
\* the end of input, the token returned for it is an ERR token positioned
\* at the opening quote, and not a STR token.
C18_UnterminatedStringIsErr ==
    \A k \in 1..Len(out) :
       (OpensString(lx.src, out[k]) /\ Unclosed(lx.src, IndexAt(lx.src, out[k].Line, out[k].Col)))
          => out[k].Kind = "TokErr"

\* the closed literals are returned as STR tokens from quote to quote
ClosedStringsAreStr ==
    \A k \in 1..Len(out) :
       (OpensString(lx.src, out[k]) /\ ~Unclosed(lx.src, IndexAt(lx.src, out[k].Line, out[k].Col)))
          => /\ out[k].Kind = "TokStr"
             /\ Len(out[k].Lex) >= 2 /\ Last(out[k].Lex) = "\""

(***************************************************************************)
(*                         CRLF LINE ENDINGS                               *)
(***************************************************************************)

\* every carriage return of src is the first half of a CRLF, and there is
\* at least one
UsesCRLF(src) ==
    /\ \E i \in 1..Len(src) : src[i] = "\r"
    /\ \A i \in 1..Len(src) : src[i] = "\r" => (i < Len(src) /\ src[i + 1] = "\n")

\* src with every CRLF replaced by LF
RECURSIVE ToLF(_)
ToLF(src) ==
    IF src = <<>> THEN <<>>
    ELSE IF Len(src) >= 2 /\ src[1] = "\r" /\ src[2] = "\n" THEN ToLF(Tail(src))
    ELSE <<Head(src)>> \o ToLF(Tail(src))

\* the tokens returned by repeated Next up to and including the first EOF
RECURSIVE TokensOf(_)
TokensOf(l) ==
    IF Next(l).tok.Kind = "TokEOF" THEN <<Next(l).tok>>
    ELSE <<Next(l).tok>> \o TokensOf(Next(l).l)

KindsAndLexemes(toks) == [k \in 1..Len(toks) |-> <<toks[k].Kind, toks[k].Lex>>]

\* C19: lexing a source that uses CRLF line endings yields the same
\* sequence of token kinds and lexemes as lexing the same source with every
\* CRLF replaced by LF (compared when the first EOF has been returned).
C19_CRLFSameAsLF ==
    (UsesCRLF(lx.src) /\ EOFSeen /\ FirstEOF = Len(out)) =>
        KindsAndLexemes(out) = KindsAndLexemes(TokensOf(New(ToLF(lx.src))))

\* the same for the sources in which no CRLF ends a line that is blank up
\* to it and no CRLF lies in a string literal
CRLFAfterCode(src) ==
    \A i \in 1..Len(src) : src[i] = "\r" =>
        /\ \E j \in LineChars(src, LineNo(src, i)) : j < i /\ src[j] \notin {" ", "\t"}
        /\ \A j \in LineChars(src, LineNo(src, i)) : src[j] # "\""
CRLFSameAsLFAfterCode ==
    (UsesCRLF(lx.src) /\ CRLFAfterCode(lx.src) /\ EOFSeen /\ FirstEOF = Len(out)) =>
        KindsAndLexemes(out) = KindsAndLexemes(TokensOf(New(ToLF(lx.src))))

(***************************************************************************)
(*                  BINARY EXPRESSIONS IN THE PARSER                       *)
(* parseExpr on the tokens of  x1 op1 x2 op2 ... xn  for every choice of   *)
(* binary operators.                                                       *)
(***************************************************************************)

\* Bound: binary operators in the expression
MaxOps == 3

\* the binary operators: their text, the kind and lexeme of their token
BinaryOperators ==
    {<<"|>", "TokPipe", <<"|", ">">> >>, <<"or", "TokOr", <<"o", "r">> >>,
     <<"and", "TokAnd", <<"a", "n", "d">> >>,
     <<"==", "TokEqEq", <<"=", "=">> >>, <<"!=", "TokNe", <<"!", "=">> >>,
     <<"<", "TokLt", <<"<">> >>, <<"<=", "TokLe", <<"<", "=">> >>,
     <<">", "TokGt", <<">">> >>, <<">=", "TokGe", <<">", "=">> >>,
     <<"+", "TokPlus", <<"+">> >>, <<"-", "TokMinus", <<"-">> >>,
     <<"*", "TokStar", <<"*">> >>, <<"/", "TokSlash", <<"/">> >>,
     <<"%", "TokPercent", <<"%">> >>}
OpTexts == {o[1] : o \in BinaryOperators}
OpTok(text) == LET o == CHOOSE o \in BinaryOperators : o[1] = text IN Tok(o[2], o[3])

\* the operands x1, x2, ...: the identifiers a, b, c, d, e
OperandNames == <<"a", "b", "c", "d", "e">>
Operand(i) == [e |-> "IdentExpr", Name |-> <<OperandNames[i]>>]
OperandTok(i) == Tok("TokIdent", <<OperandNames[i]>>)

\* the tokens of  x1 ops[1] x2 ... ops[n] x(n+1)
ExprTokens(ops) ==
    [k \in 1..(2 * Len(ops) + 1) |->
        IF k % 2 = 1 THEN OperandTok((k + 1) \div 2) ELSE OpTok(ops[k \div 2])]

ExprInit ==
    /\ \E ops \in SeqsBetween(OpTexts, 2, MaxOps) :
          prog = [ops |-> ops, toks |-> ExprTokens(ops), done |-> FALSE]
    /\ lx = Idle /\ out = Idle /\ fs = Idle /\ res = Idle /\ chk = Idle /\ bld = Idle

\* Parser.parseExpr on the tokens
ParseExprCall ==
    /\ ~prog.done
    /\ \E r \in {parseExpr(NewFromSource(prog.toks))} :
          prog' = [ops |-> prog.ops, toks |-> prog.toks, done |-> TRUE,
                   ok |-> r.ok, v |-> r.v, rest |-> Len(prog.toks) + 1 - r.p.pos]
    /\ UNCHANGED <<lx, out, fs, res, chk, bld>>

SpecParseExpr == ExprInit /\ [][ParseExprCall]_vars

\* the precedence order, from the loosest to the tightest
PrecedenceOrder ==
    <<{"|>"}, {"or"}, {"and"}, {"==", "!="}, {"<", "<=", ">", ">="}, {"+", "-"}, {"*", "/", "%"}>>
Level(op) == CHOOSE i \in 1..Len(PrecedenceOrder) : op \in PrecedenceOrder[i]

Binary(op, l, r) == [e |-> "BinaryExpr", Op |-> op, Left |-> l, Right |-> r]

\* the grouping of  x(lo) ops[lo] ... ops[hi-1] x(hi): the operator applied
\* last is the rightmost one of the loosest level
RECURSIVE Grouped(_, _, _)
Grouped(ops, lo, hi) ==
    IF lo = hi THEN Operand(lo)
    ELSE LET root == CHOOSE k \in lo..(hi - 1) :
                       /\ \A j \in lo..(hi - 1) : Level(ops[j]) >= Level(ops[k])
                       /\ \A j \in (k + 1)..(hi - 1) : Level(ops[j]) > Level(ops[k])
         IN Binary(ops[root], Grouped(ops, lo, root), Grouped(ops, root + 1, hi))

RECURSIVE LinkedFileSystemIs(_, _, _, _, _)
LinkedFileSystemIs(n, e, acc, link, target) ==
    IF n = 0
    THEN fs = [p \in Paths |->
                 IF p = link
                 THEN [status |-> acc[target].status, imports |-> acc[target].imports,
                       real |-> IF acc[target].status = "missing" THEN p ELSE target]
                 ELSE [status |-> acc[p].status, imports |-> acc[p].imports, real |-> p]]
    ELSE \E j \in 0..(IF n = link THEN 0 ELSE e) : \E f \in FileStates(j) :
            LinkedFileSystemIs(n - 1, e - j, <<f>> \o acc, link, target)

LinkInit ==
    /\ \E link \in Paths, target \in Paths :
          link # target /\ LinkedFileSystemIs(NFiles, MaxImports, <<>>, link, target)
    /\ res = [done |-> FALSE]
    /\ lx = Idle /\ out = Idle /\ prog = Idle /\ chk = Idle /\ bld = Idle

SpecResolveLinks == LinkInit /\ [][ResolveAndParse]_vars

\* the files (symbolic links resolved) that the paths denote
RealFiles == {EvalSymlinks(p) : p \in Paths}
\* how often the file r was parsed, under whichever path
ParsesOf(r) ==
    LET RECURSIVE Sum(_)
        Sum(S) == IF S = {} THEN 0
                  ELSE LET p == CHOOSE p \in S : TRUE IN res.parses[p] + Sum(S \ {p})
    IN Sum({p \in Paths : EvalSymlinks(p) = r})

\* C21: if two import paths denote the same file once symbolic links are
\* resolved, the resolver loads that file once and merges its declarations
\* once: no file is parsed more than once, and no declaration occurs more
\* than once in the merged file.
C21_SameFileLoadedOnce ==
    res.done =>
        /\ \A r \in RealFiles : ParsesOf(r) <= 1
        /\ res.file # Nil =>
              \A r \in RealFiles : Occurrences(res.file.Decls, [file |-> r, k |-> 1]) <= 1

(***************************************************************************)
(*                       EXTERNAL-LEXER BRIDGE                             *)
(* BuildAndRunRaw in its two forms: the one that builds in the temp tree   *)
(* gen/tmp/lexbridge and the binary gen/out/lexbridge_run (runner.go), and *)
(* the one that builds in a cache directory named after the hash of its    *)
(* inputs (bridge.go).  The disk is fs; res records the last call.         *)
(* Reading, writing, compiling and running succeed or fail as the          *)
(* environment decides.                                                    *)
(***************************************************************************)

\* Bound: distinct contents of the inputs (user source, Desi lexer source,
\* runtime sources); the cache key sig is the content itself
NInputs == 2
Inputs == 1..NInputs

\* gen/tmp/lexbridge among the directories; gen/out/lexbridge_run among the
\* places of a binary (the others are the cache directories 1..NInputs and
\* their lexbridge_run)
tmpRoot == 0
outBin == 0

\* no file at a binary's place
NoBin == [from |-> 0, good |-> FALSE]
\* the file clang leaves at -o: built from the inputs i; good when clang
\* succeeded, not good when it failed and left its partial output behind
BinFile(i, good) == [from |-> i, good |-> good]

BridgeInit ==
    /\ fs = [dirs |-> {}, bins |-> [b \in {outBin} \cup Inputs |-> NoBin]]
    /\ res = [version |-> "none", input |-> 0, keepTmp |-> FALSE, created |-> {},
              executed |-> NoBin, err |-> FALSE, everKept |-> FALSE]
    /\ lx = Idle /\ out = Idle /\ prog = Idle /\ chk = Idle /\ bld = Idle

\* os.RemoveAll(dir): gen/tmp/lexbridge holds the cache directories
RemoveAll(disk, dir) ==
    IF dir = tmpRoot
    THEN [dirs |-> {}, bins |-> [b \in DOMAIN disk.bins |-> IF b = outBin THEN disk.bins[b] ELSE NoBin]]
    ELSE [dirs |-> disk.dirs \ {dir}, bins |-> [disk.bins EXCEPT ![dir] = NoBin]]

\* os.MkdirAll(dir)
MkdirAll(disk, dir) == [disk EXCEPT !.dirs = @ \cup {dir}]

\* "if !keepTmp { _ = os.RemoveAll(dir) }"
cleanup(disk, keepTmp, dir) == IF keepTmp THEN disk ELSE RemoveAll(disk, dir)

\* clang -o bin: the binary when it succeeds; when it fails, nothing new or
\* a partial output
clang(disk, bin, i, outcome) ==
    CASE outcome = "ok" -> [disk EXCEPT !.bins[bin] = BinFile(i, TRUE)]
      [] outcome = "partial" -> [disk EXCEPT !.bins[bin] = BinFile(i, FALSE)]
      [] OTHER -> disk

\* what a call leaves in res
Returned(version, i, keepTmp, before, after, executed, err) ==
    [version |-> version, input |-> i, keepTmp |-> keepTmp,
     created |-> after.dirs \ before.dirs, executed |-> executed, err |-> err,
     everKept |-> res.everKept \/ keepTmp]

\* the places where the run of runner.go's BuildAndRunRaw can end
TempOutcomes == {"readUser", "mkdir", "copyLexer", "writeWrapper", "build", "ccPartial", "run", "ok"}

\* the disk after runner.go's BuildAndRunRaw ending at outcome o
tempDisk(disk, i, keepTmp, o) ==
    CASE o = "readUser" -> disk
      [] o = "mkdir" -> RemoveAll(disk, tmpRoot)
      [] o \in {"copyLexer", "writeWrapper", "build"} ->
            cleanup(MkdirAll(RemoveAll(disk, tmpRoot), tmpRoot), keepTmp, tmpRoot)
      [] o = "ccPartial" ->
            cleanup(clang(MkdirAll(RemoveAll(disk, tmpRoot), tmpRoot), outBin, i, "partial"),
                    keepTmp, tmpRoot)
      [] OTHER ->
            cleanup(clang(MkdirAll(RemoveAll(disk, tmpRoot), tmpRoot), outBin, i, "ok"),
                    keepTmp, tmpRoot)

\* BuildAndRunRaw(filePath, keepTmp) of runner.go
BuildAndRunRawTemp ==
    \E i \in Inputs, keepTmp \in BOOLEAN, o \in TempOutcomes :
       /\ fs' = tempDisk(fs, i, keepTmp, o)
       /\ res' = Returned("temp", i, keepTmp, fs, fs',
                          IF o \in {"run", "ok"} THEN BinFile(i, TRUE) ELSE NoBin, o # "ok")
       /\ UNCHANGED <<lx, out, prog, chk, bld>>

\* the places where the run of bridge.go's BuildAndRunRaw can end
CachedOutcomes == {"readUser", "readLexer", "mkdir", "mirror", "writeWrapper", "parse",
                   "check", "writeC", "cc", "ccPartial", "run", "ok"}

\* "if fileExists(binPath)": a file is at the cache place of the inputs
cached(disk, i) == disk.bins[i] # NoBin

\* the disk after bridge.go's BuildAndRunRaw ending at outcome o
cachedDisk(disk, i, keepTmp, o) ==
    CASE o \in {"readUser", "readLexer", "mkdir"} -> disk
      [] cached(disk, i) -> disk
      [] o \in {"mirror", "writeWrapper", "parse", "check", "writeC", "cc"} ->
            cleanup(MkdirAll(disk, i), keepTmp, i)
      [] o = "ccPartial" -> cleanup(clang(MkdirAll(disk, i), i, i, "partial"), keepTmp, i)
      [] OTHER -> clang(MkdirAll(disk, i), i, i, "ok")

\* BuildAndRunRaw(srcFile, keepTmp, verbose) of bridge.go
BuildAndRunRawCached ==
    \E i \in Inputs, keepTmp \in BOOLEAN, o \in CachedOutcomes :
       /\ cached(fs, i) => o \in {"readUser", "readLexer", "run", "ok"}
       /\ fs' = cachedDisk(fs, i, keepTmp, o)
       /\ res' = Returned("cached", i, keepTmp, fs, fs',
                          IF o \in {"run", "ok"} THEN fs'.bins[i] ELSE NoBin, o # "ok")
       /\ UNCHANGED <<lx, out, prog, chk, bld>>

SpecBridge == BridgeInit /\ [][BuildAndRunRawTemp \/ BuildAndRunRawCached]_vars

\* C22: every temporary directory that the bridge creates for a run is
\* removed before BuildAndRunRaw returns, on the success path and on every
\* error path, whenever the caller did not ask to keep it.
C22_TempDirsRemovedUnlessKept ==
    (res.version # "none" /\ ~res.keepTmp) => res.created = {}

\* the same for the form that builds in gen/tmp/lexbridge only
TempTreeRemovedUnlessKept ==
    (res.version = "temp" /\ ~res.keepTmp) => res.created = {}

\* the same for the error paths of the form that builds in a cache directory
CacheDirRemovedOnBuildFailure ==
    (res.version = "cached" /\ ~res.keepTmp /\ res.executed = NoBin) => res.created = {}

\* C23: the bridge executes a lexer binary only if that binary was produced
\* by a successful build of the current inputs; a binary left behind by a
\* failed build or by a build of different inputs is never executed.
C23_OnlyFreshBinaryExecuted ==
    res.executed # NoBin => (res.executed.good /\ res.executed.from = res.input)

\* the same while no caller has asked to keep the directories
FreshBinaryWhenNeverKept ==
    (res.executed # NoBin /\ ~res.everKept) => (res.executed.good /\ res.executed.from = res.input)

\* a binary built from other inputs is never executed
NoBinaryOfOtherInputs ==
    res.executed # NoBin => res.executed.from = res.input

(***************************************************************************)
(*                        DIAGNOSTICS CATALOG                              *)
(* The registry reg, loaded once from the embedded codes.json, and the     *)
(* lookups made by the goroutines of one process.                          *)
(***************************************************************************)

\* Bound: goroutines that look codes up
NGoroutines == 2

Goroutines == 1..NGoroutines
Domains == {"lexer", "parser", "type"}
Keys == {"unterminated_string", "no_such_key"}

\* the codes of a well-formed codes.json: one key in every domain
CatalogEntries == {<<d, "unterminated_string">> : d \in Domains}
\* the CodeEntry of a code, the zero CodeEntry, the caller's default
EntryOf(d, k) == [ID |-> <<d, k>>, Title |-> <<k>>]
ZeroEntry == [ID |-> <<>>, Title |-> <<>>]
DefaultEntry == [ID |-> <<"defaultID">>, Title |-> <<"defaultTitle">>]

\* the embedded codes.json:
\*   "empty"     no bytes
\*   "syntax"    not JSON: Unmarshal fails and stores nothing
\*   "mistyped"  JSON with a value of the wrong type in the parser domain:
\*               Unmarshal stores what it can and returns the type error
\*   "valid"     the catalog
Blobs == {"empty", "syntax", "mistyped", "valid"}

\* json.Unmarshal(codesJSON, &reg): the registry and whether it failed
Unmarshal(blob) ==
    CASE blob = "valid" -> [reg |-> CatalogEntries, err |-> FALSE]
      [] blob = "mistyped" -> [reg |-> {e \in CatalogEntries : e[1] # "parser"}, err |-> TRUE]
      [] OTHER -> [reg |-> {}, err |-> TRUE]

\* the function given to regOnce.Do
loadOnce(r, blob) ==
    IF blob = "empty" THEN [r EXCEPT !.regErr = FALSE]
    ELSE [r EXCEPT !.reg = Unmarshal(blob).reg, !.regErr = Unmarshal(blob).err,
                   !.parses = @ + 1]

\* (mutant) Lookup that does not ask load for its error
LookupAnyway(r, domain, key) ==
    IF <<domain, key>> \in r.reg THEN [ce |-> EntryOf(domain, key), ok |-> TRUE]
    ELSE [ce |-> ZeroEntry, ok |-> FALSE]

\* Lookup, after load has returned
Lookup(r, domain, key) ==
    IF r.regErr THEN [ce |-> ZeroEntry, ok |-> FALSE]
    ELSE IF domain \in Domains /\ <<domain, key>> \in r.reg
         THEN [ce |-> EntryOf(domain, key), ok |-> TRUE]
         ELSE [ce |-> ZeroEntry, ok |-> FALSE]

\* LookupFull, after load has returned (the entry of the CodeFull)
LookupFull(r, domain, key) ==
    IF r.regErr THEN [ce |-> ZeroEntry, ok |-> FALSE]
    ELSE IF domain \in Domains /\ <<domain, key>> \in r.reg
         THEN [ce |-> EntryOf(domain, key), ok |-> TRUE]
         ELSE [ce |-> ZeroEntry, ok |-> FALSE]

\* MustLookup
MustLookup(r, domain, key) ==
    IF Lookup(r, domain, key).ok THEN [ce |-> Lookup(r, domain, key).ce, ok |-> TRUE]
    ELSE [ce |-> DefaultEntry, ok |-> TRUE]

LookupFns == {"Lookup", "LookupFull", "MustLookup"}
Apply(fn, r, domain, key) ==
    CASE fn = "Lookup" -> Lookup(r, domain, key)
      [] fn = "LookupFull" -> LookupFull(r, domain, key)
      [] OTHER -> MustLookup(r, domain, key)

NoCall == [fn |-> "none", domain |-> "none", key |-> "none"]
\* res[g] is the answer to the last lookup of goroutine g, while it has not
\* begun another
NoResult == [call |-> NoCall, r |-> [ce |-> ZeroEntry, ok |-> FALSE]]

CatalogInit ==
    /\ fs \in Blobs
    /\ chk = [once |-> "new", reg |-> {}, regErr |-> FALSE, parses |-> 0]
    /\ prog = [g \in Goroutines |-> [pc |-> "idle", call |-> NoCall]]
    /\ res = [g \in Goroutines |-> NoResult]
    /\ lx = Idle /\ out = Idle /\ bld = Idle

\* a goroutine calls Lookup, LookupFull or MustLookup, which calls load
CallLookup(g) ==
    /\ prog[g].pc = "idle"
    /\ \E fn \in LookupFns, d \in Domains \cup {"other"}, k \in Keys :
          prog' = [prog EXCEPT ![g] = [pc |-> "load", call |-> [fn |-> fn, domain |-> d, key |-> k]]]
    /\ res' = [res EXCEPT ![g] = NoResult]
    /\ UNCHANGED <<lx, out, fs, chk, bld>>

\* regOnce.Do: the first caller runs the function, a caller arriving while
\* it runs waits, a later caller returns at once
EnterOnce(g) ==
    /\ prog[g].pc = "load"
    /\ chk.once # "running"
    /\ IF chk.once = "new"
       THEN /\ chk' = [chk EXCEPT !.once = "running"]
            /\ prog' = [prog EXCEPT ![g].pc = "init"]
       ELSE /\ prog' = [prog EXCEPT ![g].pc = "loaded"]
            /\ UNCHANGED chk
    /\ UNCHANGED <<lx, out, fs, res, bld>>

\* the function of regOnce.Do runs to its end
RunOnce(g) ==
    /\ prog[g].pc = "init"
    /\ chk' = [loadOnce(chk, fs) EXCEPT !.once = "done"]
    /\ prog' = [prog EXCEPT ![g].pc = "loaded"]
    /\ UNCHANGED <<lx, out, fs, res, bld>>

\* load has returned regErr: the lookup finishes
ReturnLookup(g) ==
    /\ prog[g].pc = "loaded"
    /\ res' = [res EXCEPT ![g] =
                  [call |-> prog[g].call,
                   r |-> Apply(prog[g].call.fn, chk, prog[g].call.domain, prog[g].call.key)]]
    /\ prog' = [prog EXCEPT ![g] = [pc |-> "idle", call |-> NoCall]]
    /\ UNCHANGED <<lx, out, fs, chk, bld>>

CatalogNext ==
    \E g \in Goroutines : CallLookup(g) \/ EnterOnce(g) \/ RunOnce(g) \/ ReturnLookup(g)

SpecCatalog == CatalogInit /\ [][CatalogNext]_vars

\* C24: the catalog is parsed at most once per process, and if the embedded
\* JSON is empty or malformed every Lookup and LookupFull reports "not
\* found" and MustLookup returns the caller-supplied default ID and title.
C24_LoadOnceAndDegrade ==
    /\ chk.parses <= 1
    /\ fs # "valid" =>
          \A g \in Goroutines :
             res[g] # NoResult =>
                IF res[g].call.fn = "MustLookup"
                THEN res[g].r.ce = DefaultEntry
                ELSE ~res[g].r.ok

\* C24 witness: on a catalog with a mistyped value, parsed once, both
\* goroutines have had answers for a code that was stored before the error:
\* a Lookup that did not find it and a MustLookup that gave the default
C24_Witness ==
    /\ fs = "mistyped" /\ chk.parses = 1 /\ chk.reg # {}
    /\ res[1].call = [fn |-> "Lookup", domain |-> "lexer", key |-> "unterminated_string"]
    /\ ~res[1].r.ok
    /\ res[2].call = [fn |-> "MustLookup", domain |-> "lexer", key |-> "unterminated_string"]
    /\ res[2].r.ce = DefaultEntry

(***************************************************************************)
(*                     EXIT CODES OF THE BUILD COMMAND                     *)
(***************************************************************************)

\* the word at i is the value of the flag before it
RECURSIVE IsValueAt(_, _)
\* the word at i stands before the `--` that ends the flags
RECURSIVE BeforeDashDash(_, _)
IsValueAt(argv, i) ==
    /\ i > 1 /\ argv[i - 1] \in ValueFlags
    /\ ~IsValueAt(argv, i - 1) /\ BeforeDashDash(argv, i - 1)
BeforeDashDash(argv, i) ==
    \A j \in 1..(i - 1) : argv[j] = "--" => IsValueAt(argv, j)

\* the positions of the flags, and of the words that can name the entry file
FlagAt(argv, i) ==
    /\ BeforeDashDash(argv, i) /\ ~IsValueAt(argv, i)
    /\ hasDashPrefix(argv[i]) /\ argv[i] # "--"
FileAt(argv, i) == ~IsValueAt(argv, i) /\ ~hasDashPrefix(argv[i])
Given(argv, flags) == \E i \in 1..Len(argv) : FlagAt(argv, i) /\ argv[i] \in flags

\* the arguments are unusable: an unknown flag, a flag missing its value,
\* or no entry file
UnknownFlag(argv) ==
    \E i \in 1..Len(argv) : FlagAt(argv, i) /\ argv[i] \notin SwitchFlags \cup ValueFlags
MissingValue(argv) ==
    FlagAt(argv, Len(argv)) /\ argv[Len(argv)] \in ValueFlags
NoEntryFile(argv) == ~ \E i \in 1..Len(argv) : FileAt(argv, i)
Unusable(argv) ==
    \/ NoEntryFile(argv)
    \/ UnknownFlag(argv)
    \/ Len(argv) > 0 /\ MissingValue(argv)

\* resolving, checking, emitting or C compilation fails
StageFails(argv, env) ==
    \/ env.perr > 0
    \/ env.errs > 0
    \/ Given(argv, {"--Werror", "--werror"}) /\ env.warns > 0
    \/ ~env.mkdirOK \/ ~env.writeOK
    \/ ~Given(argv, {"--no-cc"}) /\ ~env.ccOK

\* C25: the build command returns 2 exactly when its arguments are unusable
\* (unknown flag, a flag missing its value, or no entry file), 1 when
\* resolving, checking, emitting or C compilation fails (warnings under
\* --Werror included), and 0 only when the C file was written and, unless
\* --no-cc was given, the executable was built.
C25_ExitCodes ==
    bld.done =>
       /\ bld.exit \in {0, 1, 2}
       /\ bld.exit = 2 <=> Unusable(bld.argv)
       /\ bld.exit = 1 <=> (~Unusable(bld.argv) /\ StageFails(bld.argv, bld.env))
       /\ bld.exit = 0 =>
             (bld.cWritten /\ (Given(bld.argv, {"--no-cc"}) \/ bld.built))

\* C25 witness: `--out --no-cc a.desi` takes --no-cc for the name of the
\* executable, so the failing C compilation is run: exit code 1 with the C
\* file written
C25_Witness ==
    /\ bld.done /\ bld.argv = <<"--out", "--no-cc", "a.desi">>
    /\ ~bld.env.ccOK /\ bld.exit = 1 /\ bld.cWritten /\ ~bld.built

(***************************************************************************)
(*               EXPRESSION LISTS WITH A TRAILING COMMA                    *)
(* The call  f(e1, ..., en)  and the statement  let x = e1, ..., en  with  *)
(* and without a comma after en.                                           *)
(***************************************************************************)

\* Bound: expressions in the list
MaxListLen == 3

\* the expressions written: their tokens and their syntax tree
ListAtoms ==
    {[toks |-> <<Tok("TokIdent", <<"a">>)>>, node |-> [e |-> "IdentExpr", Name |-> <<"a">>]],
     [toks |-> <<Tok("TokInt", <<"1">>)>>, node |-> [e |-> "IntLit", Value |-> <<"1">>]],
     [toks |-> <<Tok("TokIdent", <<"b">>), Tok("TokPlus", <<"+">>), Tok("TokInt", <<"2">>)>>,
      node |-> [e |-> "BinaryExpr", Op |-> "+", Left |-> [e |-> "IdentExpr", Name |-> <<"b">>],
                Right |-> [e |-> "IntLit", Value |-> <<"2">>]]]}

\* e1 , e2 , ... en  and, if trailing, one more comma
RECURSIVE CommaTokens(_, _)
CommaTokens(items, trailing) ==
    IF Len(items) = 1
    THEN Head(items).toks \o (IF trailing THEN <<Tok("TokComma", <<",">>)>> ELSE <<>>)
    ELSE Head(items).toks \o <<Tok("TokComma", <<",">>)>> \o CommaTokens(Tail(items), trailing)

ListTokens(form, items, trailing) ==
    IF form = "call"
    THEN <<Tok("TokIdent", <<"f">>), Tok("TokLParen", <<"(">>)>> \o CommaTokens(items, trailing)
         \o <<Tok("TokRParen", <<")">>)>>
    ELSE <<Tok("TokLet", <<"l", "e", "t">>), Tok("TokIdent", <<"x">>), Tok("TokEq", <<"=">>)>>
         \o CommaTokens(items, trailing) \o <<Tok("TokNewline", <<>>)>>

ListInit ==
    /\ \E items \in SeqsBetween(ListAtoms, 1, MaxListLen), form \in {"call", "let"},
          trailing \in BOOLEAN :
          prog = [form |-> form, items |-> items, trailing |-> trailing,
                  toks |-> ListTokens(form, items, trailing), done |-> FALSE]
    /\ lx = Idle /\ out = Idle /\ fs = Idle /\ res = Idle /\ chk = Idle /\ bld = Idle

\* parseExpr on the call, parseStmt on the let statement
ParseListCall ==
    /\ ~prog.done
    /\ \E r \in {IF prog.form = "call" THEN parseExpr(NewFromSource(prog.toks))
                 ELSE parseStmt(NewFromSource(prog.toks))} :
          prog' = [form |-> prog.form, items |-> prog.items, trailing |-> prog.trailing,
                   toks |-> prog.toks, done |-> TRUE,
                   ok |-> r.ok, v |-> r.v, rest |-> Len(prog.toks) + 1 - r.p.pos]
    /\ UNCHANGED <<lx, out, fs, res, chk, bld>>

SpecParseLists == ListInit /\ [][ParseListCall]_vars

NodesOf(items) == [k \in 1..Len(items) |-> items[k].node]

\* C26: a call argument list followed by one trailing comma before `)`, and
\* the right-hand expression list of a let followed by one trailing comma
\* before the end of the line, both parse successfully, and the argument or
\* value list holds exactly the expressions written.
C26_TrailingCommaAddsNothing ==
    prog.done =>
       /\ prog.ok /\ prog.rest = 0
       /\ prog.form = "call" =>
             /\ prog.v.e = "CallExpr"
             /\ prog.v.Callee = [e |-> "IdentExpr", Name |-> <<"f">>]
             /\ prog.v.Args = NodesOf(prog.items)
       /\ prog.form = "let" =>
             /\ prog.v.s = "LetStmt"
             /\ Len(prog.v.Binds) = 1 /\ prog.v.Binds[1].Name = <<"x">>
             /\ prog.v.Values = NodesOf(prog.items)

\* C26 witness: `let x = a, b + 2,` is parsed with the two values a, b + 2
C26_Witness ==
    /\ prog.done /\ prog.form = "let" /\ prog.trailing /\ Len(prog.items) = 2
    /\ prog.ok /\ Len(prog.v.Values) = 2
    /\ prog.v.Values[2].e = "BinaryExpr"

(***************************************************************************)
(*            DESI TOKEN STREAM TO GO-LEXER TOKENS (ToGoTokens)            *)
(***************************************************************************)

\* Bound: tokens in the Desi token stream
MaxDesiToks == 3

\* MapToGoKind: the keyword texts and the other kinds that have a Go kind
GoKeywords ==
    {<<"let", "TokLet">>, <<"mut", "TokMut">>, <<"def", "TokDef">>, <<"return", "TokReturn">>,
     <<"if", "TokIf">>, <<"elif", "TokElif">>, <<"else", "TokElse">>, <<"while", "TokWhile">>,
     <<"for", "TokFor">>, <<"in", "TokIn">>, <<"match", "TokMatch">>, <<"struct", "TokStruct">>,
     <<"enum", "TokEnum">>, <<"package", "TokPackage">>, <<"import", "TokImport">>,
     <<"as", "TokAs">>, <<"true", "TokTrue">>, <<"false", "TokFalse">>, <<"and", "TokAnd">>,
     <<"or", "TokOr">>, <<"not", "TokNot">>, <<"defer", "TokDefer">>}
GoKinds ==
    {<<"IDENT", "TokIdent">>, <<"INT", "TokInt">>, <<"STR", "TokStr">>,
     <<"NEWLINE", "TokNewline">>, <<"INDENT", "TokIndent">>, <<"DEDENT", "TokDedent">>,
     <<"DOT", "TokDot">>, <<"LPAREN", "TokLParen">>, <<"RPAREN", "TokRParen">>,
     <<"LBRACK", "TokLBrack">>, <<"RBRACK", "TokRBrack">>, <<"COLON", "TokColon">>,
     <<"COMMA", "TokComma">>, <<"EQ", "TokEq">>, <<"ASSIGN", "TokAssign">>,
     <<"ARROW", "TokArrow">>, <<"PLUS", "TokPlus">>, <<"MINUS", "TokMinus">>,
     <<"STAR", "TokStar">>, <<"SLASH", "TokSlash">>, <<"PERCENT", "TokPercent">>,
     <<"PIPE", "TokPipe">>, <<"BANG", "TokBang">>, <<"LT", "TokLt">>, <<"LE", "TokLe">>,
     <<"GT", "TokGt">>, <<"GE", "TokGe">>, <<"EQEQ", "TokEqEq">>, <<"NE", "TokNe">>,
     <<"EOF", "TokEOF">>}

\* MapToGoKind(desiKind, text): (TokKind, true), or (TokEOF, false)
MapToGoKind(desiKind, text) ==
    IF desiKind = "KW"
    THEN IF \E w \in GoKeywords : w[1] = text
         THEN [k |-> (CHOOSE w \in GoKeywords : w[1] = text)[2], ok |-> TRUE]
         ELSE [k |-> "TokEOF", ok |-> FALSE]
    ELSE IF \E g \in GoKinds : g[1] = desiKind
         THEN [k |-> (CHOOSE g \in GoKinds : g[1] = desiKind)[2], ok |-> TRUE]
         ELSE [k |-> "TokEOF", ok |-> FALSE]

\* lexer.Token{Kind: TokEOF}: the other fields zero
ZeroEOF == [Kind |-> "TokEOF", Lex |-> "", Line |-> 0, Col |-> 0]

\* (mutant) an EOF is appended to every stream
alwaysEOF(toks) == Append(toks, ZeroEOF)

\* ToGoTokens, "Safety: ensure EOF exists"
ensureEOF(toks) ==
    IF Len(toks) = 0 \/ toks[Len(toks)].Kind # "TokEOF" THEN Append(toks, ZeroEOF) ELSE toks

\* ToGoTokens: the loop from the i-th token on (i counted from 0 as in the
\* error), then the EOF
RECURSIVE toGoFrom(_, _, _)
toGoFrom(desi, i, toks) ==
    IF i >= Len(desi) THEN [toks |-> ensureEOF(toks), err |-> FALSE]
    ELSE IF ~MapToGoKind(desi[i + 1].Kind, desi[i + 1].Text).ok
         THEN [toks |-> <<>>, err |-> TRUE, at |-> i, kind |-> desi[i + 1].Kind,
               text |-> desi[i + 1].Text, line |-> desi[i + 1].Line, col |-> desi[i + 1].Col]
         ELSE toGoFrom(desi, i + 1,
                 Append(toks, [Kind |-> MapToGoKind(desi[i + 1].Kind, desi[i + 1].Text).k,
                               Lex |-> desi[i + 1].Text,
                               Line |-> desi[i + 1].Line, Col |-> desi[i + 1].Col]))

ToGoTokens(desi) == toGoFrom(desi, 0, <<>>)

\* the (kind, text) pairs of the Desi tokens in the streams: keywords, a
\* word that is no keyword of the Go lexer, an identifier, the end of the
\* stream, the lexer's error token
DesiWords ==
    {<<"KW", "let">>, <<"KW", "defer">>, <<"KW", "unless">>, <<"IDENT", "x">>, <<"NEWLINE", "">>,
     <<"EOF", "">>, <<"ERR", "unterminated string">>}

\* the streams: the k-th token stands at line 1 + (k \div 2), column 1 + 3 * (k % 2)
DesiStream(words) ==
    [k \in 1..Len(words) |->
        [Kind |-> words[k][1], Text |-> words[k][2], Line |-> 1 + (k \div 2), Col |-> 1 + 3 * (k % 2)]]

ToGoInit ==
    /\ \E words \in SeqsBetween(DesiWords, 0, MaxDesiToks) :
          prog = [desi |-> DesiStream(words), done |-> FALSE]
    /\ res = Idle
    /\ lx = Idle /\ out = Idle /\ fs = Idle /\ chk = Idle /\ bld = Idle

ToGoTokensCall ==
    /\ ~prog.done
    /\ prog' = [prog EXCEPT !.done = TRUE]
    /\ res' = ToGoTokens(prog.desi)
    /\ UNCHANGED <<lx, out, fs, chk, bld>>

SpecToGo == ToGoInit /\ [][ToGoTokensCall]_vars

\* the kinds (and keyword texts) that have a Go token kind
HasGoKind(t) ==
    IF t.Kind = "KW" THEN t.Text \in {w[1] : w \in GoKeywords}
    ELSE t.Kind \in {g[1] : g \in GoKinds}
Unmapped(desi) == {k \in 1..Len(desi) : ~HasGoKind(desi[k])}
FirstUnmapped(desi) == CHOOSE k \in Unmapped(desi) : \A j \in Unmapped(desi) : k <= j

\* C27: ToGoTokens either fails with an error identifying the first input
\* token whose (kind, text) has no Go token kind and returns no tokens, or
\* returns the input tokens mapped one-for-one in the same order with text
\* and position preserved, followed by one appended EOF only if the last
\* input token was not EOF; a successful result always ends with EOF.
C27_ToGoTokensAllOrFirstError ==
    prog.done =>
       IF Unmapped(prog.desi) # {}
       THEN /\ res.err /\ res.toks = <<>>
            /\ res.at = FirstUnmapped(prog.desi) - 1
            /\ res.kind = prog.desi[FirstUnmapped(prog.desi)].Kind
            /\ res.text = prog.desi[FirstUnmapped(prog.desi)].Text
            /\ res.line = prog.desi[FirstUnmapped(prog.desi)].Line
            /\ res.col = prog.desi[FirstUnmapped(prog.desi)].Col
       ELSE /\ ~res.err
            /\ \A k \in 1..Len(prog.desi) :
                  /\ res.toks[k].Kind = MapToGoKind(prog.desi[k].Kind, prog.desi[k].Text).k
                  /\ res.toks[k].Lex = prog.desi[k].Text
                  /\ res.toks[k].Line = prog.desi[k].Line
                  /\ res.toks[k].Col = prog.desi[k].Col
            /\ Len(res.toks) = Len(prog.desi) +
                  (IF Len(prog.desi) > 0 /\ prog.desi[Len(prog.desi)].Kind = "EOF" THEN 0 ELSE 1)
            /\ res.toks[Len(res.toks)].Kind = "TokEOF"

\* C27 witness: a stream that ends with EOF is returned with as many tokens,
\* its keyword defer mapped to TokDefer
C27_Witness ==
    /\ prog.done /\ ~res.err
    /\ Len(prog.desi) = 3 /\ prog.desi[3].Kind = "EOF" /\ prog.desi[1].Text = "defer"
    /\ Len(res.toks) = 3 /\ res.toks[1].Kind = "TokDefer" /\ res.toks[3].Kind = "TokEOF"

(***************************************************************************)
(*                THE LEXER ON SOURCES GIVEN LINE BY LINE                  *)
(***************************************************************************)

\* Bounds: lines of a source, spaces of indentation of a line
MaxLines == 3
MaxWidth == 2

\* what follows the indentation of a line: code, nothing, a comment
LineBodies == {<<"a">>, <<>>, <<"#">>}
LineShapes == (0..MaxWidth) \X LineBodies
LineText(shape) == [i \in 1..shape[1] |-> " "] \o shape[2] \o <<"\n">>
RECURSIVE Lines(_)
Lines(shapes) == IF shapes = <<>> THEN <<>> ELSE LineText(Head(shapes)) \o Lines(Tail(shapes))

\* the state after lexer.New(src) for every source of one to MaxLines
\* lines, the last line with or without its newline
LinesInit ==
    /\ \E shapes \in SeqsBetween(LineShapes, 1, MaxLines), final \in BOOLEAN :
          lx = New(IF final THEN Lines(shapes) ELSE Front(Lines(shapes)))
    /\ out = <<>>
    /\ fs = Idle /\ res = Idle /\ prog = Idle /\ chk = Idle /\ bld = Idle

SpecLexLines == LinesInit /\ [][LexNext]_vars

\* line n holds code; its indentation width as countIndent counts it
CodeLine(src, n) == IsLine(src, n) /\ ~BlankOrComment(src, n)
Blanks(src, n) ==
    {i \in LineChars(src, n) : \A j \in LineChars(src, n) : j <= i => src[j] \in {" ", "\t"}}
WidthOf(src, n) ==
    Cardinality({i \in Blanks(src, n) : src[i] = " "}) + 4 * Cardinality({i \in Blanks(src, n) : src[i] = "\t"})
\* m and n are code lines with no code line between them
ConsecutiveCode(src, m, n) ==
    /\ m < n /\ CodeLine(src, m) /\ CodeLine(src, n)
    /\ \A p \in (m + 1)..(n - 1) : ~CodeLine(src, p)
\* the tokens of the code of line n that have been returned
CodeTokens(n) == {k \in 1..Len(out) : out[k].Line = n /\ out[k].Kind \notin LayoutKinds}
LastOf(S) == CHOOSE k \in S : \A j \in S : j <= k
FirstOf(S) == CHOOSE k \in S : \A j \in S : k <= j

\* C28: between two consecutive non-blank, non-comment lines that have the
\* same indentation width the lexer returns only the first line's tokens
\* and one NEWLINE, never an INDENT or DEDENT, whatever indentation the
\* earlier lines of the source had.
C28_SameWidthNoIndentDedent ==
    \A m, n \in 1..(NewlineCount(lx.src) + 1) :
       (/\ ConsecutiveCode(lx.src, m, n)
        /\ WidthOf(lx.src, m) = WidthOf(lx.src, n)
        /\ CodeTokens(n) # {}) =>
          /\ FirstOf(CodeTokens(n)) = LastOf(CodeTokens(m)) + 2
          /\ out[LastOf(CodeTokens(m)) + 1].Kind = "TokNewline"

\* every code line is indented as far as the code line before it or
\* further, or exactly as far as an enclosing earlier line (or not at all)
WellIndented(src) ==
    \A n \in 1..(NewlineCount(src) + 1) : CodeLine(src, n) =>
       \/ WidthOf(src, n) = 0
       \/ \E m \in 1..(n - 1) :
             /\ CodeLine(src, m) /\ WidthOf(src, m) = WidthOf(src, n)
             /\ \A p \in (m + 1)..(n - 1) : CodeLine(src, p) => WidthOf(src, p) >= WidthOf(src, n)
       \/ \A m \in 1..(n - 1) : CodeLine(src, m) => WidthOf(src, m) < WidthOf(src, n)
       \/ \E m \in 1..(n - 1) : ConsecutiveCode(src, m, n) /\ WidthOf(src, m) < WidthOf(src, n)

\* the same for the sources in which every dedent returns to the width of
\* an enclosing line
SameWidthNoIndentDedentWhenWellIndented ==
    WellIndented(lx.src) =>
       \A m, n \in 1..(NewlineCount(lx.src) + 1) :
          (/\ ConsecutiveCode(lx.src, m, n)
           /\ WidthOf(lx.src, m) = WidthOf(lx.src, n)
           /\ CodeTokens(n) # {}) =>
             /\ FirstOf(CodeTokens(n)) = LastOf(CodeTokens(m)) + 2
             /\ out[LastOf(CodeTokens(m)) + 1].Kind = "TokNewline"

(***************************************************************************)
(*                 SOURCES WITHOUT A FINAL NEWLINE                         *)
(***************************************************************************)

\* the last line of src does not end with a newline
Unterminated(src) == src # <<>> /\ src[Len(src)] # "\n"
KindsOf(toks) == [k \in 1..Len(toks) |-> toks[k].Kind]

\* C29: a source whose last line does not end with a newline lexes to the
\* same sequence of token kinds as the same source with a final newline
\* appended, so that the last statement is followed by a NEWLINE before any
\* closing DEDENT and the EOF, also when the last line ends with a comment
\* (compared when the first EOF has been returned).
C29_MissingFinalNewlineSameKinds ==
    (Unterminated(lx.src) /\ EOFSeen /\ FirstEOF = Len(out)) =>
        KindsOf(out) = KindsOf(TokensOf(New(lx.src \o <<"\n">>)))

\* what the lexer does instead when the last line holds code and no
\* comment: the kinds are those of the terminated source without the
\* NEWLINE of the last line
WithoutLastNewline(kinds) ==
    LET n == LastOf({k \in 1..Len(kinds) : kinds[k] = "TokNewline"}) IN
    SubSeq(kinds, 1, n - 1) \o SubSeq(kinds, n + 1, Len(kinds))
LastLine(src) == NewlineCount(src) + 1
MissingFinalNewlineDropsNewline ==
    (/\ Unterminated(lx.src) /\ CodeLine(lx.src, LastLine(lx.src))
     /\ \A i \in LineChars(lx.src, LastLine(lx.src)) : lx.src[i] # "#"
     /\ EOFSeen /\ FirstEOF = Len(out)) =>
        KindsOf(out) = WithoutLastNewline(KindsOf(TokensOf(New(lx.src \o <<"\n">>))))

(***************************************************************************)
(*          THE RESOLVER WITH A TOKEN-SOURCE FACTORY                       *)
(* ResolveAndParseWith, called with a loader that reads the file and lexes *)
(* it with the built-in lexer, next to ResolveAndParse on the same files.  *)
(***************************************************************************)

\* the loader: os.ReadFile and lexer.New on its text; the token source is
\* named by the path whose text it lexes
builtinLoader(p) ==
    IF fs[p].status \in {"missing", "unreadable"} THEN [src |-> Nil, lerr |-> TRUE]
    ELSE [src |-> p, lerr |-> FALSE]

\* parser.NewFromSource(src).ParseFile() returns an error
parseFails(src) == fs[src].status = "badparse"

\* (mutant) a failure of the loader is not reported
loadSilent(st, p) == st

\* load of ResolveAndParseWith: the error appended when the loader fails
loadErr(st, p) == addErr(st, [kind |-> "load", path |-> p])

RECURSIVE loadWith(_, _), loadImportsWith(_, _, _)
\* load of ResolveAndParseWith: the loop over f.Imports, from the k-th on
loadImportsWith(st, p, k) ==
    IF k > Len(fs[p].imports) THEN st
    ELSE LET target == fs[p].imports[k] IN
         IF target = StdImport THEN loadImportsWith(st, p, k + 1)
         ELSE IF ~fileExists(target) THEN loadImportsWith(notFoundErr(st, target, p), p, k + 1)
         ELSE loadImportsWith(loadWith(st, target), p, k + 1)

\* the closure load of ResolveAndParseWith
loadWith(st, p) ==
    IF alreadySeen(st, p) THEN st
    ELSE IF onStack(st, p) THEN cycleErr(st, p)
    ELSE LET s1 == [st EXCEPT !.stack = Append(@, p), !.reads[p] = @ + 1]
             l == builtinLoader(p)
         IN IF l.lerr THEN popStack(loadErr(s1, p))
            ELSE LET s2 == [s1 EXCEPT !.parses[p] = @ + 1] IN
                 IF parseFails(l.src) THEN popStack(parseErr(s2, p))
                 ELSE popStack(finishLoad(loadImportsWith(s2, p, 1), p))

\* the files under the entry's directory, before either function is called
WithInit ==
    /\ \/ FileSystemIs(NFiles, MaxImports, <<>>)
       \/ \E link \in Paths \ {entryAbs}, target \in Paths \ {entryAbs} :
             link # target /\ LinkedFileSystemIs(NFiles, MaxImports, <<>>, link, target)
    /\ res = [done |-> FALSE]
    /\ prog = [done |-> FALSE]
    /\ lx = Idle /\ out = Idle /\ chk = Idle /\ bld = Idle

\* one call ResolveAndParseWith(entryPath, loader)
ResolveAndParseWith ==
    /\ ~prog.done
    /\ LET st == loadWith(resolverVars, entryAbs)
           r == returned(st)
       IN prog' = [done |-> TRUE, file |-> r.file, errs |-> r.errs, result |-> st.result]
    /\ UNCHANGED <<lx, out, fs, res, chk, bld>>

SpecResolveWith == WithInit /\ [][ResolveAndParse \/ ResolveAndParseWith]_vars

\* the failure an error reports: its kind (a failed read of ResolveAndParse
\* is a failed load of ResolveAndParseWith) and its files
FailureOf(e) == [e EXCEPT !.kind = IF @ \in {"read", "load"} THEN "file" ELSE @]

\* C30: with a token-source factory that lexes each file with the built-in
\* lexer, ResolveAndParseWith returns the same merged declaration list as
\* ResolveAndParse for the same entry file, and reports a cycle, a missing
\* import or a per-file failure for exactly the same files.
C30_WithBuiltinLexerSameAsResolveAndParse ==
    (res.done /\ prog.done) =>
        /\ prog.file.isNil = res.file.isNil
        /\ prog.file.Decls = res.file.Decls
        /\ Len(prog.errs) = Len(res.errs)
        /\ \A k \in 1..Len(res.errs) : FailureOf(prog.errs[k]) = FailureOf(res.errs[k])

\* C30 witness: both have returned the merged declarations of three files
C30_Witness ==
    /\ res.done /\ prog.done
    /\ ~prog.file.isNil /\ Len(prog.file.Decls) = 6 /\ prog.result = <<2, 3, 1>>

\* both have returned, reporting an unreadable file and a cycle
BothReportFailures ==
    /\ res.done /\ prog.done
    /\ \E k \in 1..Len(prog.errs) : prog.errs[k].kind = "load" /\ res.errs[k].kind = "read"
    /\ \E k \in 1..Len(prog.errs) : prog.errs[k].kind = "cycle"

====
